---- MODULE Spec2Model ----
(***************************************************************************)
(* Model of openforcefield/topology/topology.py: the Topology container,   *)
(* its TopologyMolecule instances, the Topology* views, global indexing,   *)
(* chemical-environment matching and the import from an OpenMM topology.   *)
(*                                                                         *)
(* Python indices are kept 0-based in every value of the model (local and  *)
(* global indices, match tuples); a Python list l is a TLA+ sequence, so   *)
(* the Python element l[i] is the TLA+ element l[i + 1].                   *)
(***************************************************************************)
EXTENDS Integers, Sequences, FiniteSets, TLC

VARIABLES
    topology_molecules,                       \* Topology._topology_molecules
    reference_molecule_to_topology_molecules, \* Topology._reference_molecule_to_topology_molecules
    added,                                    \* history: the molecules passed to add_molecule
    op,                                       \* the operation that ran last
    arg,                                      \* its argument
    result,                                   \* what it returned or raised
    constrained_atom_pairs,                   \* Topology._constrained_atom_pairs
    box_vectors,                              \* Topology._box_vectors
    aromaticity_model,                        \* Topology._aromaticity_model
    charge_model,                             \* Topology._charge_model
    fractional_bond_order_model,              \* Topology._fractional_bond_order_model
    dict_class,                               \* the class of a canonical-key dict
    store,                                    \* _TransformedDict.store
    key0,                                     \* the key tuple its callers start from
    calls,                                    \* per thread: its add_molecule call
    key_eq,                                   \* how FrozenMolecule keys compare
    overlapped                                \* two calls have been in flight at once

\* The molecules of the Topology.
molecule_state ==
    <<topology_molecules, reference_molecule_to_topology_molecules, added>>

\* The constraints and settings of the Topology.
metadata ==
    <<constrained_atom_pairs, box_vectors, aromaticity_model, charge_model,
      fractional_bond_order_model>>

\* A ValenceDict or ImproperDict.
dict_state == <<dict_class, store, key0>>

\* The add_molecule calls that threads are making.
call_state == <<calls, key_eq, overlapped>>

vars == <<molecule_state, op, arg, result, metadata, dict_state, call_state>>

\* Number of add_molecule calls explored.
MaxMolecules == 3
\* Number of connected components of an OpenMM topology explored.
MaxComponents == 3
\* Number of entries of unique_molecules explored.
MaxUnique == 2

None == [kind |-> "None"]

RECURSIVE SumSeq(_)
SumSeq(s) == IF s = <<>> THEN 0 ELSE Head(s) + SumSeq(Tail(s))

RECURSIVE Concat(_)
Concat(ss) == IF ss = <<>> THEN <<>> ELSE Head(ss) \o Concat(Tail(ss))

\* Every sequence over S of length at most n.
SeqUpTo(S, n) == UNION {[1..k -> S] : k \in 0..n}

(***************************************************************************)
(* The molecule capability (openforcefield.topology.molecule).  A Molecule *)
(* is a chemical species together with the order in which it lists its     *)
(* atoms; the canonical SMILES forgets that order.                         *)
(***************************************************************************)
SpeciesTable ==
    [helium   |-> [smiles |-> "[He]",
                   atoms  |-> <<2>>,
                   bonds  |-> <<>>,
                   n_virtual_sites |-> 0],
     monoxide |-> [smiles |-> "[C-]#[O+]",
                   atoms  |-> <<6, 8>>,
                   bonds  |-> << <<0, 1, 3>> >>,
                   n_virtual_sites |-> 2],
     carbonyl |-> [smiles |-> "[C]=[O]",
                   atoms  |-> <<6, 8>>,
                   bonds  |-> << <<0, 1, 2>> >>,
                   n_virtual_sites |-> 0],
     water    |-> [smiles |-> "[H]O[H]",
                   atoms  |-> <<8, 1, 1>>,
                   bonds  |-> << <<0, 1, 1>>, <<0, 2, 1>> >>,
                   n_virtual_sites |-> 1]]

Species == DOMAIN SpeciesTable

Orderings == {"fwd", "rev"}

\* A species with a single atom has a single atom order.
Molecules ==
    {m \in [species : Species, ordering : Orderings] :
        Len(SpeciesTable[m.species].atoms) = 1 => m.ordering = "fwd"}

\* The molecules handed to add_molecule by the callers explored.
AddableSpecies == {"helium", "monoxide", "water"}
AddableMolecules == {m \in Molecules : m.species \in AddableSpecies}

Reverse(s) == [i \in 1..Len(s) |-> s[Len(s) + 1 - i]]

\* Local index of the atom that the species lists at position i.
Relabel(molecule, i) ==
    IF molecule.ordering = "fwd" THEN i
    ELSE Len(SpeciesTable[molecule.species].atoms) - 1 - i

\* Molecule.atoms: the atomic numbers, in the molecule's own atom order.
Molecule_atoms(molecule) ==
    LET a == SpeciesTable[molecule.species].atoms
    IN  IF molecule.ordering = "fwd" THEN a ELSE Reverse(a)

\* Molecule.bonds: <<atom1 index, atom2 index, bond order>>, in bond order.
Molecule_bonds(molecule) ==
    LET b == SpeciesTable[molecule.species].bonds
    IN  [i \in 1..Len(b) |->
            <<Relabel(molecule, b[i][1]), Relabel(molecule, b[i][2]), b[i][3]>>]

Molecule_n_atoms(molecule) == Len(Molecule_atoms(molecule))
Molecule_n_bonds(molecule) == Len(Molecule_bonds(molecule))
Molecule_n_virtual_sites(molecule) == SpeciesTable[molecule.species].n_virtual_sites
Molecule_n_particles(molecule) ==
    Molecule_n_atoms(molecule) + Molecule_n_virtual_sites(molecule)

\* Molecule.to_smiles: the canonical SMILES, independent of the atom order.
to_smiles(molecule) == SpeciesTable[molecule.species].smiles

\* Molecule.chemical_environment_matches: the tuples of local atom indices
\* that match a SMARTS pattern, in the order the toolkit reports them.
Smarts == {"[*:1]", "[#1:1]", "[*:1]~[*:2]"}

Molecule_chemical_environment_matches(molecule, smarts) ==
    LET a == Molecule_atoms(molecule)
        b == Molecule_bonds(molecule)
    IN  IF smarts = "[*:1]"
        THEN [i \in 1..Len(a) |-> <<i - 1>>]
        ELSE IF smarts = "[#1:1]"
        THEN LET h == SelectSeq([i \in 1..Len(a) |-> i - 1],
                                LAMBDA i : a[i + 1] = 1)
             IN  [i \in 1..Len(h) |-> <<h[i]>>]
        ELSE Concat([i \in 1..Len(b) |->
                        << <<b[i][1], b[i][2]>>, <<b[i][2], b[i][1]>> >>])

\* FrozenMolecule(molecule): a new immutable object with the same content.
FrozenMolecule(molecule, id) ==
    [id |-> id, species |-> molecule.species, ordering |-> molecule.ordering]

(***************************************************************************)
(* Topology state.  T is the pair of the two containers of a Topology:     *)
(*   T.topology_molecules  list of TopologyMolecule                        *)
(*   T.reference_molecule_to_topology_molecules                            *)
(*        OrderedDict, a sequence of [key |-> FrozenMolecule, val |-> list *)
(*        of TopologyMolecule] in insertion order of the keys.             *)
(* Objects compared by identity carry an id.                               *)
(***************************************************************************)
\* Topology._initialize
initialize ==
    [topology_molecules |-> <<>>,
     reference_molecule_to_topology_molecules |-> <<>>]

\* The Topology the variables describe.
Self ==
    [topology_molecules |-> topology_molecules,
     reference_molecule_to_topology_molecules |->
         reference_molecule_to_topology_molecules]

\* TopologyMolecule.__init__
TopologyMolecule(reference_molecule, id) ==
    [id |-> id, reference_molecule |-> reference_molecule]

\* Topology.reference_molecules: the keys, in insertion order.
reference_molecules(T) ==
    [i \in 1..Len(T.reference_molecule_to_topology_molecules) |->
        T.reference_molecule_to_topology_molecules[i].key]

\* _reference_molecule_to_topology_molecules[reference_molecule]
InstancesOf(T, reference_molecule) ==
    LET d == T.reference_molecule_to_topology_molecules
        i == CHOOSE i \in 1..Len(d) : d[i].key.id = reference_molecule.id
    IN  d[i].val

\* Variant of the scan that compares only the key inserted last.
FindReferenceLastOnly(d, mol_smiles, i) ==
    IF d # <<>> /\ mol_smiles = to_smiles(d[Len(d)].key) THEN Len(d) ELSE 0

\* The scan of add_molecule for a reference molecule with the same SMILES:
\* the position of the first key that matches, 0 when there is none.
RECURSIVE FindReference(_, _, _)
FindReference(d, mol_smiles, i) ==
    IF i > Len(d) THEN 0
    ELSE IF mol_smiles = to_smiles(d[i].key) THEN i
    ELSE FindReference(d, mol_smiles, i + 1)

\* Variant of add_molecule that registers the new instance with its
\* reference molecule only when that reference molecule is new.
add_molecule_unregistered(T, molecule) ==
    LET d0    == T.reference_molecule_to_topology_molecules
        found == FindReference(d0, to_smiles(molecule), 1)
        d1    == IF found = 0
                 THEN Append(d0, [key |-> FrozenMolecule(molecule, Len(d0) + 1),
                                  val |-> <<>>])
                 ELSE d0
        pos   == IF found = 0 THEN Len(d1) ELSE found
        tms   == Append(T.topology_molecules,
                     TopologyMolecule(d1[pos].key, Len(T.topology_molecules) + 1))
        d2    == IF found = 0
                 THEN [d1 EXCEPT ![pos].val = Append(@, tms[Len(tms)])]
                 ELSE d1
    IN  [topology |-> [topology_molecules |-> tms,
                       reference_molecule_to_topology_molecules |-> d2],
         index |-> Len(tms)]

\* Variant of add_molecule that puts the new instance first in the list.
add_molecule_prepend(T, molecule) ==
    LET d0    == T.reference_molecule_to_topology_molecules
        found == FindReference(d0, to_smiles(molecule), 1)
        d1    == IF found = 0
                 THEN Append(d0, [key |-> FrozenMolecule(molecule, Len(d0) + 1),
                                  val |-> <<>>])
                 ELSE d0
        pos   == IF found = 0 THEN Len(d1) ELSE found
        topology_molecule ==
            TopologyMolecule(d1[pos].key, Len(T.topology_molecules) + 1)
        tms   == <<topology_molecule>> \o T.topology_molecules
        d2    == [d1 EXCEPT ![pos].val = Append(@, topology_molecule)]
    IN  [topology |-> [topology_molecules |-> tms,
                       reference_molecule_to_topology_molecules |-> d2],
         index |-> Len(tms)]

\* Variant of add_molecule that returns the 0-based position of the instance.
add_molecule_position(T, molecule) ==
    LET d0    == T.reference_molecule_to_topology_molecules
        found == FindReference(d0, to_smiles(molecule), 1)
        d1    == IF found = 0
                 THEN Append(d0, [key |-> FrozenMolecule(molecule, Len(d0) + 1),
                                  val |-> <<>>])
                 ELSE d0
        pos   == IF found = 0 THEN Len(d1) ELSE found
        tms   == Append(T.topology_molecules,
                     TopologyMolecule(d1[pos].key, Len(T.topology_molecules) + 1))
        d2    == [d1 EXCEPT ![pos].val = Append(@, tms[Len(tms)])]
    IN  [topology |-> [topology_molecules |-> tms,
                       reference_molecule_to_topology_molecules |-> d2],
         index |-> Len(tms) - 1]

\* Topology.add_molecule: the Topology after the call and the value returned.
add_molecule(T, molecule) ==
    LET d0    == T.reference_molecule_to_topology_molecules
        found == FindReference(d0, to_smiles(molecule), 1)
        d1    == IF found = 0
                 THEN Append(d0, [key |-> FrozenMolecule(molecule, Len(d0) + 1),
                                  val |-> <<>>])
                 ELSE d0
        pos   == IF found = 0 THEN Len(d1) ELSE found
        topology_molecule ==
            TopologyMolecule(d1[pos].key, Len(T.topology_molecules) + 1)
        tms   == Append(T.topology_molecules, topology_molecule)
        d2    == [d1 EXCEPT ![pos].val = Append(@, tms[Len(tms)])]
    IN  [topology |-> [topology_molecules |-> tms,
                       reference_molecule_to_topology_molecules |-> d2],
         index |-> Len(tms)]

(***************************************************************************)
(* Values handed back to the caller: every one is a record with a kind.    *)
(***************************************************************************)
IntVal(n) == [kind |-> "int", value |-> n]
ListVal(l) == [kind |-> "list", value |-> l]
AssertionError == [kind |-> "AssertionError"]
IndexError == [kind |-> "IndexError"]
TypeError == [kind |-> "TypeError"]

\* l[index] on a Python list of length n: the position read, or n when the
\* index is out of range (negative indices count from the end).
ListPosition(n, index) ==
    IF 0 <= index /\ index < n THEN index
    ELSE IF -n <= index /\ index < 0 THEN n + index
    ELSE n

(***************************************************************************)
(* Reference entities of a frozen molecule, known by owner and position.   *)
(***************************************************************************)
Atom(reference_molecule, i) ==
    [molecule |-> reference_molecule.id, molecule_atom_index |-> i]
Bond(reference_molecule, i) ==
    [molecule |-> reference_molecule.id, molecule_bond_index |-> i]
VirtualSite(reference_molecule, i) ==
    [molecule |-> reference_molecule.id, molecule_virtual_site_index |-> i]

(***************************************************************************)
(* Topology* views.                                                        *)
(***************************************************************************)
TopologyAtom(atom, topology_molecule) ==
    [kind |-> "TopologyAtom", atom |-> atom,
     topology_molecule |-> topology_molecule]
TopologyBond(bond, topology_molecule) ==
    [kind |-> "TopologyBond", bond |-> bond,
     topology_molecule |-> topology_molecule]
TopologyVirtualSite(virtual_site, topology_molecule) ==
    [kind |-> "TopologyVirtualSite", virtual_site |-> virtual_site,
     topology_molecule |-> topology_molecule]

(***************************************************************************)
(* TopologyMolecule.                                                       *)
(***************************************************************************)
TopologyMolecule_n_atoms(tm) == Molecule_n_atoms(tm.reference_molecule)
TopologyMolecule_n_bonds(tm) == Molecule_n_bonds(tm.reference_molecule)
TopologyMolecule_n_particles(tm) == Molecule_n_particles(tm.reference_molecule)
TopologyMolecule_n_virtual_sites(tm) ==
    Molecule_n_virtual_sites(tm.reference_molecule)

\* Variant of the comparison: equal when the reference molecules are.
TopologyMolecule_eq_by_reference(self, other) ==
    self.reference_molecule = other.reference_molecule

\* self == topology_molecule: TopologyMolecule defines no __eq__, so the
\* comparison is object identity.
TopologyMolecule_eq(self, other) == self.id = other.id

TopologyMolecule_atom(tm, index) ==
    LET n == TopologyMolecule_n_atoms(tm)
        j == ListPosition(n, index)
    IN  IF j = n THEN IndexError
        ELSE TopologyAtom(Atom(tm.reference_molecule, j), tm)

TopologyMolecule_bond(tm, index) ==
    LET n == TopologyMolecule_n_bonds(tm)
        j == ListPosition(n, index)
    IN  IF j = n THEN IndexError
        ELSE TopologyBond(Bond(tm.reference_molecule, j), tm)

TopologyMolecule_virtual_site(tm, index) ==
    LET n == TopologyMolecule_n_virtual_sites(tm)
        j == ListPosition(n, index)
    IN  IF j = n THEN IndexError
        ELSE TopologyVirtualSite(VirtualSite(tm.reference_molecule, j), tm)

\* Molecule.particles: the atoms, then the virtual sites, each tagged with
\* its class.
Molecule_particles(reference_molecule) ==
    [i \in 1..Molecule_n_particles(reference_molecule) |->
        IF i <= Molecule_n_atoms(reference_molecule)
        THEN [class |-> "Atom", entity |-> Atom(reference_molecule, i - 1)]
        ELSE [class |-> "VirtualSite",
              entity |-> VirtualSite(reference_molecule,
                             i - 1 - Molecule_n_atoms(reference_molecule))]]

\* TopologyMolecule.particles: a TopologyAtom or TopologyVirtualSite for each
\* particle of the reference molecule, by isinstance.
TopologyMolecule_particles(tm) ==
    [i \in 1..Molecule_n_particles(tm.reference_molecule) |->
        LET particle == Molecule_particles(tm.reference_molecule)[i]
        IN  IF particle.class = "Atom" THEN TopologyAtom(particle.entity, tm)
            ELSE TopologyVirtualSite(particle.entity, tm)]

NameError == [kind |-> "NameError"]

\* TopologyMolecule.particle: the name TopologyParticle is not defined in the
\* module, and Python looks the callee up before it evaluates the arguments.
TopologyMolecule_particle(tm, index) == NameError

\* A view object: the view and the identity of the Python object holding it.
Object(view, oid) == [view |-> view, oid |-> oid]

\* TopologyAtom.__eq__
TopologyAtom_eq(self, other) ==
    /\ self.view.atom = other.view.atom
    /\ TopologyMolecule_eq(self.view.topology_molecule,
                           other.view.topology_molecule)

\* TopologyBond defines no __eq__: == is object identity.
TopologyBond_eq(self, other) == self.oid = other.oid

\* TopologyVirtualSite.__eq__
TopologyVirtualSite_eq(self, other) ==
    /\ self.view.virtual_site = other.view.virtual_site
    /\ TopologyMolecule_eq(self.view.topology_molecule,
                           other.view.topology_molecule)

\* self == other for two views of one kind.
view_eq(self, other) ==
    IF self.view.kind = "TopologyAtom" THEN TopologyAtom_eq(self, other)
    ELSE IF self.view.kind = "TopologyBond" THEN TopologyBond_eq(self, other)
    ELSE TopologyVirtualSite_eq(self, other)

\* The four start-index properties: scan the Topology's instance list from
\* position i with the count accumulated so far, until self is reached.
\* Falling off the end of the list returns None.
RECURSIVE AtomStartScan(_, _, _, _)
AtomStartScan(tms, self, i, atom_start_topology_index) ==
    IF i > Len(tms) THEN None
    ELSE IF TopologyMolecule_eq(self, tms[i]) THEN IntVal(atom_start_topology_index)
    ELSE AtomStartScan(tms, self, i + 1,
             atom_start_topology_index + TopologyMolecule_n_atoms(tms[i]))

atom_start_topology_index(T, self) ==
    AtomStartScan(T.topology_molecules, self, 1, 0)

RECURSIVE BondStartScan(_, _, _, _)
BondStartScan(tms, self, i, bond_start_topology_index) ==
    IF i > Len(tms) THEN None
    ELSE IF TopologyMolecule_eq(self, tms[i]) THEN IntVal(bond_start_topology_index)
    ELSE BondStartScan(tms, self, i + 1,
             bond_start_topology_index + TopologyMolecule_n_bonds(tms[i]))

bond_start_topology_index(T, self) ==
    BondStartScan(T.topology_molecules, self, 1, 0)

RECURSIVE ParticleStartScan(_, _, _, _)
ParticleStartScan(tms, self, i, particle_start_topology_index) ==
    IF i > Len(tms) THEN None
    ELSE IF TopologyMolecule_eq(self, tms[i])
         THEN IntVal(particle_start_topology_index)
    ELSE ParticleStartScan(tms, self, i + 1,
             particle_start_topology_index + TopologyMolecule_n_particles(tms[i]))

particle_start_topology_index(T, self) ==
    ParticleStartScan(T.topology_molecules, self, 1, 0)

RECURSIVE VirtualSiteStartScan(_, _, _, _)
VirtualSiteStartScan(tms, self, i, virtual_site_start_topology_index) ==
    IF i > Len(tms) THEN None
    ELSE IF TopologyMolecule_eq(self, tms[i])
         THEN IntVal(virtual_site_start_topology_index)
    ELSE VirtualSiteStartScan(tms, self, i + 1,
             virtual_site_start_topology_index
                 + TopologyMolecule_n_virtual_sites(tms[i]))

virtual_site_start_topology_index(T, self) ==
    VirtualSiteStartScan(T.topology_molecules, self, 1, 0)

\* start + local index; adding to None is a TypeError.
Offset(start, local) ==
    IF start.kind = "int" THEN IntVal(start.value + local) ELSE TypeError

\* TopologyAtom.topology_atom_index
topology_atom_index(T, view) ==
    Offset(atom_start_topology_index(T, view.topology_molecule),
           view.atom.molecule_atom_index)

\* TopologyBond.topology_bond_index
topology_bond_index(T, view) ==
    Offset(bond_start_topology_index(T, view.topology_molecule),
           view.bond.molecule_bond_index)

\* TopologyVirtualSite.topology_virtual_site_index
topology_virtual_site_index(T, view) ==
    Offset(virtual_site_start_topology_index(T, view.topology_molecule),
           view.virtual_site.molecule_virtual_site_index)

(***************************************************************************)
(* Topology: counters and global lookups.                                  *)
(***************************************************************************)
\* Topology.n_reference_molecules
n_reference_molecules(T) == Len(reference_molecules(T))

\* Topology.n_molecules
n_molecules(T) == Len(T.topology_molecules)

\* Topology.n_atoms: per reference molecule, count times number of instances.
Topology_n_atoms(T) ==
    LET d == T.reference_molecule_to_topology_molecules
    IN  SumSeq([i \in 1..Len(d) |-> Molecule_n_atoms(d[i].key) * Len(d[i].val)])

Topology_n_bonds(T) ==
    LET d == T.reference_molecule_to_topology_molecules
    IN  SumSeq([i \in 1..Len(d) |-> Molecule_n_bonds(d[i].key) * Len(d[i].val)])

Topology_n_particles(T) ==
    LET d == T.reference_molecule_to_topology_molecules
    IN  SumSeq([i \in 1..Len(d) |->
                   Molecule_n_particles(d[i].key) * Len(d[i].val)])

Topology_n_virtual_sites(T) ==
    LET d == T.reference_molecule_to_topology_molecules
    IN  SumSeq([i \in 1..Len(d) |->
                   Molecule_n_virtual_sites(d[i].key) * Len(d[i].val)])

\* Variant of the loop of Topology.atom that stops one instance early
\* (>= for >).
RECURSIVE AtomScanEarly(_, _, _, _, _)
AtomScanEarly(tms, atom_topology_index, i, this_molecule_start_index, next_molecule_start_index) ==
    IF i > Len(tms) THEN None
    ELSE LET next == next_molecule_start_index + TopologyMolecule_n_atoms(tms[i])
         IN  IF next >= atom_topology_index
             THEN TopologyMolecule_atom(tms[i],
                      atom_topology_index - this_molecule_start_index)
             ELSE AtomScanEarly(tms, atom_topology_index, i + 1,
                      this_molecule_start_index + TopologyMolecule_n_atoms(tms[i]),
                      next)

\* The loop of Topology.atom from position i of the instance list.
RECURSIVE AtomScan(_, _, _, _, _)
AtomScan(tms, atom_topology_index, i, this_molecule_start_index, next_molecule_start_index) ==
    IF i > Len(tms) THEN None
    ELSE LET next == next_molecule_start_index + TopologyMolecule_n_atoms(tms[i])
         IN  IF next > atom_topology_index
             THEN TopologyMolecule_atom(tms[i],
                      atom_topology_index - this_molecule_start_index)
             ELSE AtomScan(tms, atom_topology_index, i + 1,
                      this_molecule_start_index + TopologyMolecule_n_atoms(tms[i]),
                      next)

\* Variant of Topology.atom whose assertion checks only the upper end.
Topology_atom_unchecked_below(T, atom_topology_index) ==
    IF ~(atom_topology_index < Topology_n_atoms(T))
    THEN AssertionError
    ELSE AtomScan(T.topology_molecules, atom_topology_index, 1, 0, 0)

\* Topology.atom
Topology_atom(T, atom_topology_index) ==
    IF ~(0 <= atom_topology_index /\ atom_topology_index < Topology_n_atoms(T))
    THEN AssertionError
    ELSE AtomScan(T.topology_molecules, atom_topology_index, 1, 0, 0)

RECURSIVE VirtualSiteScan(_, _, _, _, _)
VirtualSiteScan(tms, vsite_topology_index, i, this_molecule_start_index, next_molecule_start_index) ==
    IF i > Len(tms) THEN None
    ELSE LET next == next_molecule_start_index
                         + TopologyMolecule_n_virtual_sites(tms[i])
         IN  IF next > vsite_topology_index
             THEN TopologyMolecule_virtual_site(tms[i],
                      vsite_topology_index - this_molecule_start_index)
             ELSE VirtualSiteScan(tms, vsite_topology_index, i + 1,
                      this_molecule_start_index
                          + TopologyMolecule_n_virtual_sites(tms[i]),
                      next)

\* Topology.virtual_site
Topology_virtual_site(T, vsite_topology_index) ==
    IF ~(0 <= vsite_topology_index
            /\ vsite_topology_index < Topology_n_virtual_sites(T))
    THEN AssertionError
    ELSE VirtualSiteScan(T.topology_molecules, vsite_topology_index, 1, 0, 0)

RECURSIVE BondScan(_, _, _, _, _)
BondScan(tms, bond_topology_index, i, this_molecule_start_index, next_molecule_start_index) ==
    IF i > Len(tms) THEN None
    ELSE LET next == next_molecule_start_index + TopologyMolecule_n_bonds(tms[i])
         IN  IF next > bond_topology_index
             THEN TopologyMolecule_bond(tms[i],
                      bond_topology_index - this_molecule_start_index)
             ELSE BondScan(tms, bond_topology_index, i + 1,
                      this_molecule_start_index + TopologyMolecule_n_bonds(tms[i]),
                      next)

\* Topology.bond
Topology_bond(T, bond_topology_index) ==
    IF ~(0 <= bond_topology_index /\ bond_topology_index < Topology_n_bonds(T))
    THEN AssertionError
    ELSE BondScan(T.topology_molecules, bond_topology_index, 1, 0, 0)


(***************************************************************************)
(* Topology.chemical_environment_matches.                                  *)
(***************************************************************************)
ValueError == [kind |-> "ValueError"]

\* The queries explored: a SMARTS string, a ChemicalEnvironment that renders
\* to one, and an object of another type.
Queries ==
    [type : {"str", "ChemicalEnvironment"}, smarts : Smarts]
        \cup {[type |-> "int", smarts |-> "[*:1]"]}

\* Variant of the translation that leaves out the instance's start index.
MatchTupleLocal(T, topology_molecule, reference_match) ==
    [p \in 1..Len(reference_match) |-> Topology_atom(T, reference_match[p])]

\* One match of the reference molecule translated for one instance: the
\* TopologyAtom at atom_start_topology_index + local index, per tagged atom.
MatchTuple(T, topology_molecule, reference_match) ==
    [p \in 1..Len(reference_match) |->
        LET start == atom_start_topology_index(T, topology_molecule)
        IN  IF start.kind # "int" THEN TypeError
            ELSE Topology_atom(T, start.value + reference_match[p])]

\* Variant of the two inner loops with the instance loop outside.
UnrollMatchesByInstance(T, refmol_matches, instances) ==
    Concat([k \in 1..Len(instances) |->
               [j \in 1..Len(refmol_matches) |->
                   MatchTuple(T, instances[k], refmol_matches[j])]])

\* The two inner loops: for each match, for each instance of the reference
\* molecule, append the translated tuple.
UnrollMatches(T, refmol_matches, instances) ==
    Concat([j \in 1..Len(refmol_matches) |->
               [k \in 1..Len(instances) |->
                   MatchTuple(T, instances[k], refmol_matches[j])]])

chemical_environment_matches(T, query) ==
    IF query.type \notin {"str", "ChemicalEnvironment"} THEN ValueError
    ELSE
    LET smarts == query.smarts
        d == T.reference_molecule_to_topology_molecules
        refs == reference_molecules(T)
        matches ==
            Concat([i \in 1..Len(refs) |->
                UnrollMatches(T,
                    Molecule_chemical_environment_matches(refs[i], smarts),
                    InstancesOf(T, refs[i]))])
        raised == {<<x, p>> \in (1..Len(matches)) \X (1..2) :
                      p <= Len(matches[x]) /\ matches[x][p].kind # "TopologyAtom"}
    IN  IF raised # {}
        THEN LET f == CHOOSE f \in raised :
                          \A g \in raised :
                              f[1] < g[1] \/ (f[1] = g[1] /\ f[2] <= g[2])
             IN  matches[f[1]][f[2]]
        ELSE ListVal(matches)

(***************************************************************************)
(* Topology.from_openmm.                                                   *)
(*                                                                         *)
(* A networkx Graph is an object [id, nodes, edges]: nodes maps each node  *)
(* to its atomic number, edges maps each edge {u, v} to its bond order.    *)
(* An OpenMM topology is [atoms, bonds]: atoms lists the atomic numbers by *)
(* atom index, bonds lists <<atom1 index, atom2 index, order>> where the   *)
(* order is None or IntVal(n).                                             *)
(***************************************************************************)
Exception(message, args) ==
    [kind |-> "Exception", message |-> message, args |-> args]

\* Molecule.to_networkx: a new Graph object for the molecule.
to_networkx(molecule, id) ==
    LET a == Molecule_atoms(molecule)
        b == Molecule_bonds(molecule)
    IN  [id |-> id,
         nodes |-> [v \in 0..(Len(a) - 1) |-> a[v + 1]],
         edges |-> [e \in {{b[i][1], b[i][2]} : i \in 1..Len(b)} |->
                       LET i == CHOOSE i \in 1..Len(b) : {b[i][1], b[i][2]} = e
                       IN  IntVal(b[i][3])]]

\* graph in graph_to_unq_mol.keys(), graph_to_unq_mol[graph]: networkx Graph
\* defines neither __eq__ nor __hash__, so dict keys compare by identity.
Graph_eq(g, h) == g.id = h.id

\* omm_has_bond_orders
omm_has_bond_orders(openmm_topology) ==
    \A i \in 1..Len(openmm_topology.bonds) :
        openmm_topology.bonds[i][3] # None

\* The loop that fills graph_to_unq_mol, from entry i of unique_molecules on:
\* the dict (a sequence of [key |-> Graph, val |-> Molecule] in insertion
\* order), or the Exception raised for two indistinguishable graphs.  Each
\* entry makes two Graph objects, with ids 2i - 1 and 2i.
RECURSIVE GraphToUnqMol(_, _, _)
GraphToUnqMol(unique_molecules, i, graph_to_unq_mol) ==
    IF i > Len(unique_molecules) THEN ListVal(graph_to_unq_mol)
    ELSE LET unq_mol == unique_molecules[i]
             unq_graph == to_networkx(unq_mol, 2 * i - 1)
             same == {k \in 1..Len(graph_to_unq_mol) :
                          Graph_eq(unq_graph, graph_to_unq_mol[k].key)}
         IN  IF same # {}
             THEN Exception(
                      "Error: Two unique molecules have indistinguishable graphs: {} and {}",
                      <<unq_mol, graph_to_unq_mol[CHOOSE k \in same : TRUE].val>>)
             ELSE GraphToUnqMol(unique_molecules, i + 1,
                      Append(graph_to_unq_mol,
                             [key |-> to_networkx(unq_mol, 2 * i),
                              val |-> unq_mol]))

\* omm_topology_G: a node per atom, an edge per bond (a later bond between
\* the same two atoms replaces the attributes of an earlier one).
omm_topology_G(openmm_topology) ==
    LET a == openmm_topology.atoms
        b == openmm_topology.bonds
    IN  [id |-> 0,
         nodes |-> [v \in 0..(Len(a) - 1) |-> a[v + 1]],
         edges |-> [e \in {{b[i][1], b[i][2]} : i \in 1..Len(b)} |->
                       LET last == CHOOSE i \in 1..Len(b) :
                                       /\ {b[i][1], b[i][2]} = e
                                       /\ \A j \in (i + 1)..Len(b) :
                                              {b[j][1], b[j][2]} # e
                       IN  b[last][3]]]

\* The nodes reachable from the nodes in seen.
RECURSIVE Reachable(_, _)
Reachable(G, seen) ==
    LET more == {v \in DOMAIN G.nodes :
                    \E u \in seen : {u, v} \in DOMAIN G.edges}
    IN  IF more \subseteq seen THEN seen ELSE Reachable(G, seen \cup more)

\* G.subgraph(nodes)
Subgraph(G, nodes) ==
    [id |-> G.id,
     nodes |-> [v \in nodes |-> G.nodes[v]],
     edges |-> [e \in {e \in DOMAIN G.edges : e \subseteq nodes} |-> G.edges[e]]]

\* nx.connected_component_subgraphs(G): one subgraph per connected
\* component, in the order in which the nodes of G first reach them.
RECURSIVE connected_component_subgraphs(_, _, _)
connected_component_subgraphs(G, v, seen) ==
    IF v \notin DOMAIN G.nodes THEN <<>>
    ELSE IF v \in seen THEN connected_component_subgraphs(G, v + 1, seen)
    ELSE LET c == Reachable(G, {v})
         IN  <<Subgraph(G, c)>>
                 \o connected_component_subgraphs(G, v + 1, seen \cup c)

\* nx.is_isomorphic(G1, G2, node_match, edge_match): node_match compares the
\* atomic numbers; edge_match compares the orders, or is None (use_orders
\* false) and then edge attributes are ignored.
is_isomorphic(G1, G2, use_orders) ==
    /\ Cardinality(DOMAIN G1.nodes) = Cardinality(DOMAIN G2.nodes)
    /\ Cardinality(DOMAIN G1.edges) = Cardinality(DOMAIN G2.edges)
    /\ \E f \in [DOMAIN G1.nodes -> DOMAIN G2.nodes] :
          /\ \A u, v \in DOMAIN G1.nodes : f[u] = f[v] => u = v
          /\ \A u \in DOMAIN G1.nodes : G1.nodes[u] = G2.nodes[f[u]]
          /\ \A e \in DOMAIN G1.edges :
                LET fe == {f[u] : u \in e}
                IN  /\ fe \in DOMAIN G2.edges
                    /\ use_orders => G1.edges[e] = G2.edges[fe]

\* Variant of the inner loop that keeps the last isomorphic candidate.
LastMatch(graph_to_unq_mol, omm_mol_G, use_orders, k) ==
    LET hits == {h \in k..Len(graph_to_unq_mol) :
                    is_isomorphic(graph_to_unq_mol[h].key, omm_mol_G, use_orders)}
    IN  IF hits = {} THEN 0 ELSE CHOOSE h \in hits : \A g \in hits : g <= h

\* The inner loop over graph_to_unq_mol.keys() from position k: the position
\* of the first key isomorphic to the component, 0 when there is none.
RECURSIVE FirstMatch(_, _, _, _)
FirstMatch(graph_to_unq_mol, omm_mol_G, use_orders, k) ==
    IF k > Len(graph_to_unq_mol) THEN 0
    ELSE IF is_isomorphic(graph_to_unq_mol[k].key, omm_mol_G, use_orders) THEN k
    ELSE FirstMatch(graph_to_unq_mol, omm_mol_G, use_orders, k + 1)

\* Variant of the outer loop that skips a component without a match.
RECURSIVE MatchComponentsSkipping(_, _, _, _, _, _)
MatchComponentsSkipping(T, history, components, c, graph_to_unq_mol, use_orders) ==
    IF c > Len(components)
    THEN [kind |-> "Topology", topology |-> T, added |-> history]
    ELSE LET k == FirstMatch(graph_to_unq_mol, components[c], use_orders, 1)
         IN  IF k = 0
             THEN MatchComponentsSkipping(T, history, components, c + 1,
                      graph_to_unq_mol, use_orders)
             ELSE MatchComponentsSkipping(
                      add_molecule(T, graph_to_unq_mol[k].val).topology,
                      Append(history, graph_to_unq_mol[k].val),
                      components, c + 1, graph_to_unq_mol, use_orders)

\* The outer loop over the connected components from component c on, with
\* the Topology built so far (and the molecules added to it): the Topology
\* returned, or the Exception raised for a component without a match.
RECURSIVE MatchComponents(_, _, _, _, _, _)
MatchComponents(T, history, components, c, graph_to_unq_mol, use_orders) ==
    IF c > Len(components)
    THEN [kind |-> "Topology", topology |-> T, added |-> history]
    ELSE LET k == FirstMatch(graph_to_unq_mol, components[c], use_orders, 1)
         IN  IF k = 0
             THEN Exception("No match found for molecule", <<>>)
             ELSE MatchComponents(
                      add_molecule(T, graph_to_unq_mol[k].val).topology,
                      Append(history, graph_to_unq_mol[k].val),
                      components, c + 1, graph_to_unq_mol, use_orders)

\* Topology.from_openmm
from_openmm(openmm_topology, unique_molecules) ==
    LET use_orders == omm_has_bond_orders(openmm_topology)
        graph_to_unq_mol == GraphToUnqMol(unique_molecules, 1, <<>>)
        G == omm_topology_G(openmm_topology)
    IN  IF graph_to_unq_mol.kind = "Exception" THEN graph_to_unq_mol
        ELSE MatchComponents(initialize, <<>>,
                 connected_component_subgraphs(G, 0, {}), 1,
                 graph_to_unq_mol.value, use_orders)

(***************************************************************************)
(* The OpenMM topologies and candidate lists explored.                     *)
(***************************************************************************)
\* A connected component of an OpenMM topology: the atoms and bonds of a
\* molecule, with or without bond orders.
OpenmmComponents ==
    {[molecule |-> [species |-> "helium", ordering |-> "fwd"], orders |-> TRUE]}
    \cup [molecule : {[species |-> "monoxide", ordering |-> "fwd"],
                      [species |-> "water", ordering |-> "rev"]},
          orders : BOOLEAN]

\* The OpenMM topology that lists the given components one after the other.
RECURSIVE OpenmmTopology(_)
OpenmmTopology(components) ==
    IF components = <<>> THEN [atoms |-> <<>>, bonds |-> <<>>]
    ELSE LET n    == Len(components)
             rest == OpenmmTopology(SubSeq(components, 1, n - 1))
             comp == components[n]
             b    == Molecule_bonds(comp.molecule)
             off  == Len(rest.atoms)
         IN  [atoms |-> rest.atoms \o Molecule_atoms(comp.molecule),
              bonds |-> rest.bonds \o
                  [i \in 1..Len(b) |->
                      <<b[i][1] + off, b[i][2] + off,
                        IF comp.orders THEN IntVal(b[i][3]) ELSE None>>]]

\* The entries of unique_molecules.
CandidateMolecules ==
    {m \in Molecules : m.species # "water" \/ m.ordering = "fwd"}

(***************************************************************************)
(* Topology: constraints and settings.                                     *)
(***************************************************************************)
\* An attribute that was never assigned.
Unset == [kind |-> "unset"]

\* A Python str.
Str(value) == [kind |-> "str", value |-> value]

PyTrue == [kind |-> "bool", value |-> TRUE]
PyFalse == [kind |-> "bool", value |-> FALSE]

\* A simtk.unit.Quantity.
Quantity(value, unit, shape) ==
    [kind |-> "Quantity", value |-> value, unit |-> unit, shape |-> shape]

\* unit.is_quantity
is_quantity(x) == x.kind = "Quantity"

KeyError == [kind |-> "KeyError"]

\* The model names of openforcefield.utils.toolkits, as the setters' docstrings
\* list them.
DEFAULT_AROMATICITY_MODEL == "OEAroModel_MDL"
ALLOWED_AROMATICITY_MODELS == {"OEAroModel_MDL"}
ALLOWED_CHARGE_MODELS == {"AM1-BCC"}
ALLOWED_FRACTIONAL_BOND_ORDER_MODELS == {"Wiberg"}

\* Topology._initialize: the constraints and settings of a blank Topology
\* (constrained_atom_pairs is a dict, here a function on the pairs it holds).
initialize_metadata ==
    [aromaticity_model |-> Str(DEFAULT_AROMATICITY_MODEL),
     constrained_atom_pairs |-> <<>>,
     box_vectors |-> None]

\* del d[key]
DictDel(d, key) == [k \in (DOMAIN d) \ {key} |-> d[k]]

\* d[key] = value
DictSet(d, key, value) ==
    [k \in (DOMAIN d) \cup {key} |-> IF k = key THEN value ELSE d[k]]

\* Variant of add_constraint that records the constraint under (iatom, jatom)
\* only.
add_constraint_one_direction(pairs, iatom, jatom, distance) ==
    LET ij == <<iatom, jatom>>
        ji == <<jatom, iatom>>
    IN  IF ij \in DOMAIN pairs /\ is_quantity(pairs[ij]) /\ distance = PyTrue
        THEN [pairs |-> pairs, raised |-> Exception(
                 "Atoms (%d,%d) already constrained with distance %s but attempting to override with unspecified distance",
                 <<iatom, jatom, pairs[ij]>>)]
        ELSE IF ij \in DOMAIN pairs /\ pairs[ij] = PyTrue /\ distance = PyTrue
        THEN [pairs |-> pairs, raised |-> Exception(
                 "Atoms (%d,%d) already constrained with unspecified distance but attempting to override with unspecified distance",
                 <<iatom, jatom>>)]
        ELSE IF ij \in DOMAIN pairs /\ distance = PyFalse
        THEN IF ji \in DOMAIN DictDel(pairs, ij)
             THEN [pairs |-> DictDel(DictDel(pairs, ij), ji), raised |-> None]
             ELSE [pairs |-> DictDel(pairs, ij), raised |-> KeyError]
        ELSE [pairs |-> DictSet(pairs, ij, distance), raised |-> None]

\* Variant of add_constraint whose removal deletes (iatom, jatom) only.
add_constraint_remove_one_direction(pairs, iatom, jatom, distance) ==
    LET ij == <<iatom, jatom>>
        ji == <<jatom, iatom>>
    IN  IF ij \in DOMAIN pairs /\ is_quantity(pairs[ij]) /\ distance = PyTrue
        THEN [pairs |-> pairs, raised |-> Exception(
                 "Atoms (%d,%d) already constrained with distance %s but attempting to override with unspecified distance",
                 <<iatom, jatom, pairs[ij]>>)]
        ELSE IF ij \in DOMAIN pairs /\ pairs[ij] = PyTrue /\ distance = PyTrue
        THEN [pairs |-> pairs, raised |-> Exception(
                 "Atoms (%d,%d) already constrained with unspecified distance but attempting to override with unspecified distance",
                 <<iatom, jatom>>)]
        ELSE IF ij \in DOMAIN pairs /\ distance = PyFalse
        THEN [pairs |-> DictDel(pairs, ij), raised |-> None]
        ELSE [pairs |-> DictSet(DictSet(pairs, ij, distance), ji, distance),
              raised |-> None]

\* Topology.add_constraint: the constraint map after the call and what the
\* call raised (None when it returned).
add_constraint(pairs, iatom, jatom, distance) ==
    LET ij == <<iatom, jatom>>
        ji == <<jatom, iatom>>
    IN  IF ij \in DOMAIN pairs /\ is_quantity(pairs[ij]) /\ distance = PyTrue
        THEN [pairs |-> pairs, raised |-> Exception(
                 "Atoms (%d,%d) already constrained with distance %s but attempting to override with unspecified distance",
                 <<iatom, jatom, pairs[ij]>>)]
        ELSE IF ij \in DOMAIN pairs /\ pairs[ij] = PyTrue /\ distance = PyTrue
        THEN [pairs |-> pairs, raised |-> Exception(
                 "Atoms (%d,%d) already constrained with unspecified distance but attempting to override with unspecified distance",
                 <<iatom, jatom>>)]
        ELSE IF ij \in DOMAIN pairs /\ distance = PyFalse
        THEN IF ji \in DOMAIN DictDel(pairs, ij)
             THEN [pairs |-> DictDel(DictDel(pairs, ij), ji), raised |-> None]
             ELSE [pairs |-> DictDel(pairs, ij), raised |-> KeyError]
        ELSE [pairs |-> DictSet(DictSet(pairs, ij, distance), ji, distance),
              raised |-> None]

\* Variant of is_constrained that answers with a bool.
is_constrained_bool(pairs, iatom, jatom) ==
    IF <<iatom, jatom>> \in DOMAIN pairs THEN PyTrue ELSE PyFalse

\* Topology.is_constrained
is_constrained(pairs, iatom, jatom) ==
    IF <<iatom, jatom>> \in DOMAIN pairs THEN pairs[<<iatom, jatom>>]
    ELSE PyFalse

\* The atom indices passed to add_constraint and is_constrained.
AtomIndices == {0, 1}

\* The distance arguments: pending, remove, and two concrete distances.
Distances ==
    {PyTrue, PyFalse, Quantity(1, "angstrom", <<>>), Quantity(2, "angstrom", <<>>)}

\* The dimension of a simtk unit.
UnitDimension ==
    [angstrom |-> "length", nanometer |-> "length", kelvin |-> "temperature"]

\* unit.angstrom.is_compatible(u)
is_compatible(u) == UnitDimension[u] = UnitDimension["angstrom"]

\* A numpy array without units.
ndarray(value, shape) == [kind |-> "ndarray", value |-> value, shape |-> shape]

\* hasattr(box_vectors, 'unit')
has_unit(new_box_vectors) == new_box_vectors.kind = "Quantity"

\* Variant of the box_vectors setter without the assertion on the shape.
box_vectors_setter_any_shape(stored, new_box_vectors) ==
    IF new_box_vectors = None
    THEN [stored |-> None, raised |-> None]
    ELSE IF ~has_unit(new_box_vectors)
    THEN [stored |-> stored,
          raised |-> Exception("Given unitless box vectors", <<>>)]
    ELSE IF ~is_compatible(new_box_vectors.unit)
    THEN [stored |-> stored,
          raised |-> Exception(
              "Attempting to set box vectors in units that are incompatible with simtk.unit.Angstrom",
              <<>>)]
    ELSE [stored |-> new_box_vectors, raised |-> None]

\* Topology.box_vectors (setter): the stored box vectors after the call and
\* what the call raised.
box_vectors_setter(stored, new_box_vectors) ==
    IF new_box_vectors = None
    THEN [stored |-> None, raised |-> None]
    ELSE IF ~has_unit(new_box_vectors)
    THEN [stored |-> stored,
          raised |-> Exception("Given unitless box vectors", <<>>)]
    ELSE IF ~is_compatible(new_box_vectors.unit)
    THEN [stored |-> stored,
          raised |-> Exception(
              "Attempting to set box vectors in units that are incompatible with simtk.unit.Angstrom",
              <<>>)]
    ELSE IF new_box_vectors.shape # <<3>>
    THEN [stored |-> stored, raised |-> AssertionError]
    ELSE [stored |-> new_box_vectors, raised |-> None]

\* Topology.box_vectors (getter)
box_vectors_getter(stored) == stored

\* Variant of a model setter that stores any value.
model_setter_unvalidated(stored, allowed, model) ==
    [model |-> Str(model), raised |-> None]

\* The body shared by the aromaticity_model, charge_model and
\* fractional_bond_order_model setters: the stored model after the call and
\* what the call raised.
model_setter(stored, allowed, model) ==
    IF model \notin allowed THEN [model |-> stored, raised |-> ValueError]
    ELSE [model |-> Str(model), raised |-> None]

\* Topology.aromaticity_model (setter)
aromaticity_model_setter(stored, model) ==
    model_setter(stored, ALLOWED_AROMATICITY_MODELS, model)

\* Topology.charge_model (setter)
charge_model_setter(stored, model) ==
    model_setter(stored, ALLOWED_CHARGE_MODELS, model)

\* Topology.fractional_bond_order_model (setter)
fractional_bond_order_model_setter(stored, model) ==
    model_setter(stored, ALLOWED_FRACTIONAL_BOND_ORDER_MODELS, model)

\* The shapes of the arrays passed to the box_vectors setter.
Shapes == {<<3>>, <<2>>, <<3, 3>>}

\* The values passed to the box_vectors setter: None, arrays without units,
\* and arrays with a unit of length or of another dimension.
BoxVectorInputs ==
    {None}
    \cup {ndarray(value, shape) : value \in {1, 2}, shape \in Shapes}
    \cup {Quantity(value, u, shape) :
             value \in {1, 2}, u \in DOMAIN UnitDimension, shape \in Shapes}

\* The values passed to the model setters.
ModelInputs == {"OEAroModel_MDL", "AM1-BCC", "Wiberg", "OEAroModel_OpenEye"}

(***************************************************************************)
(* _TransformedDict, ValenceDict and ImproperDict.                         *)
(***************************************************************************)
\* Largest atom index in a key tuple.
MaxKeyIndex == 3

\* tuple(reversed(key))
reversed(key) == [i \in 1..Len(key) |-> key[Len(key) + 1 - i]]

\* Variant of ValenceDict.__keytransform__ that keeps the key as given.
ValenceDict_keytransform_as_given(key) == key

\* ValenceDict.__keytransform__
ValenceDict_keytransform(key) ==
    IF key[1] > key[Len(key)] THEN reversed(key) ELSE key

\* list.sort of a list of three integers.
Sort3(l) ==
    LET lo == IF l[1] <= l[2] /\ l[1] <= l[3] THEN l[1]
              ELSE IF l[2] <= l[3] THEN l[2] ELSE l[3]
        hi == IF l[1] >= l[2] /\ l[1] >= l[3] THEN l[1]
              ELSE IF l[2] >= l[3] THEN l[2] ELSE l[3]
    IN  <<lo, l[1] + l[2] + l[3] - lo - hi, hi>>

\* Variant of ImproperDict.__keytransform__ that keeps the substituents in the
\* order given.
ImproperDict_keytransform_unsorted(key) ==
    LET connectedatoms == <<key[1], key[3], key[4]>>
    IN  <<connectedatoms[1], key[2], connectedatoms[2], connectedatoms[3]>>

\* ImproperDict.__keytransform__
ImproperDict_keytransform(key) ==
    LET connectedatoms == Sort3(<<key[1], key[3], key[4]>>)
    IN  <<connectedatoms[1], key[2], connectedatoms[2], connectedatoms[3]>>

\* self.__keytransform__(key), dispatched on the class of self.
keytransform(class, key) ==
    IF class = "ValenceDict" THEN ValenceDict_keytransform(key)
    ELSE IF class = "ImproperDict" THEN ImproperDict_keytransform(key)
    ELSE key

\* Position of a key in the OrderedDict store, 0 when it is not a key.
StorePosition(st, key) ==
    IF \E n \in 1..Len(st) : st[n].key = key
    THEN CHOOSE n \in 1..Len(st) : st[n].key = key
    ELSE 0

\* OrderedDict.__getitem__
StoreGet(st, key) ==
    IF StorePosition(st, key) = 0 THEN KeyError
    ELSE st[StorePosition(st, key)].val

\* Variant of OrderedDict.__setitem__ that moves a known key to the end.
StoreSet_move_to_end(st, key, value) ==
    IF StorePosition(st, key) = 0 THEN Append(st, [key |-> key, val |-> value])
    ELSE Append(SubSeq(st, 1, StorePosition(st, key) - 1)
                    \o SubSeq(st, StorePosition(st, key) + 1, Len(st)),
                [key |-> key, val |-> value])

\* OrderedDict.__setitem__: a known key keeps its place, a new one goes last.
StoreSet(st, key, value) ==
    IF StorePosition(st, key) = 0 THEN Append(st, [key |-> key, val |-> value])
    ELSE [st EXCEPT ![StorePosition(st, key)].val = value]

\* OrderedDict.__delitem__ of a key that is present.
StoreDel(st, key) ==
    LET n == StorePosition(st, key)
    IN  SubSeq(st, 1, n - 1) \o SubSeq(st, n + 1, Len(st))

\* _TransformedDict.__getitem__
getitem(class, st, key) == StoreGet(st, keytransform(class, key))

\* _TransformedDict.__setitem__
setitem(class, st, key, value) == StoreSet(st, keytransform(class, key), value)

\* _TransformedDict.__delitem__: the store after the call and what it raised.
delitem(class, st, key) ==
    IF StorePosition(st, keytransform(class, key)) = 0
    THEN [store |-> st, raised |-> KeyError]
    ELSE [store |-> StoreDel(st, keytransform(class, key)), raised |-> None]

\* The key tuples of a class: bonds, angles and torsions for a ValenceDict,
\* improper torsions for an ImproperDict.
KeysOf(class) ==
    IF class = "ValenceDict"
    THEN UNION {[1..n -> 1..MaxKeyIndex] : n \in 2..4}
    ELSE [1..4 -> 1..MaxKeyIndex]

\* The orderings of the substituents key[0], key[2], key[3] around key[1].
SubstituentOrderings(key) ==
    {<<key[1], key[2], key[3], key[4]>>, <<key[1], key[2], key[4], key[3]>>,
     <<key[3], key[2], key[1], key[4]>>, <<key[3], key[2], key[4], key[1]>>,
     <<key[4], key[2], key[1], key[3]>>, <<key[4], key[2], key[3], key[1]>>}

\* The other ways a caller writes the key: reversed for a ValenceDict, with
\* the substituents reordered for an ImproperDict.
Rewritings(class, key) ==
    IF class = "ValenceDict" THEN {key, reversed(key)}
    ELSE SubstituentOrderings(key)

\* A key for another entry: the key with its first index replaced.
OtherKey(key) == [key EXCEPT ![1] = (key[1] % MaxKeyIndex) + 1]

\* The values stored.
DictValues == {[kind |-> "str", value |-> "p"], [kind |-> "str", value |-> "q"]}

(***************************************************************************)
(* Topology.is_bonded and Topology.assert_bonded.                          *)
(***************************************************************************)
\* Atom.bonds: the indices of the bonds of the reference molecule that the
\* atom takes part in, in bond order.
Atom_bonds(reference_molecule, molecule_atom_index) ==
    LET bonds == Molecule_bonds(reference_molecule)
    IN  SelectSeq([n \in 1..Len(bonds) |-> n - 1],
                  LAMBDA b : molecule_atom_index \in {bonds[b + 1][1], bonds[b + 1][2]})

\* TopologyAtom.topology_bonds
TopologyAtom_topology_bonds(topology_atom) ==
    LET tm == topology_atom.topology_molecule
        bonds == Atom_bonds(tm.reference_molecule,
                            topology_atom.atom.molecule_atom_index)
    IN  [n \in 1..Len(bonds) |-> TopologyMolecule_bond(tm, bonds[n])]

\* TopologyBond.atoms
TopologyBond_atoms(topology_bond) ==
    LET tm == topology_bond.topology_molecule
        bond == Molecule_bonds(tm.reference_molecule)[
                    topology_bond.bond.molecule_bond_index + 1]
    IN  <<TopologyMolecule_atom(tm, bond[1]), TopologyMolecule_atom(tm, bond[2])>>

\* top_atom == atom for two TopologyAtom objects.
SameAtom(top_atom, atom) == TopologyAtom_eq(Object(top_atom, 1), Object(atom, 2))

\* Variant of the loops of is_bonded without the skip of atomi itself.
BondedLoops_no_skip(atomi, atomj) ==
    LET top_bonds == TopologyAtom_topology_bonds(atomi)
    IN  \E n \in 1..Len(top_bonds) :
            LET top_atoms == TopologyBond_atoms(top_bonds[n])
            IN  \E p \in 1..2 : SameAtom(top_atoms[p], atomj)

\* The loops of is_bonded over the bonds of atomi and their atoms: some atom
\* of some bond is not atomi and is atomj.
BondedLoops(atomi, atomj) ==
    LET top_bonds == TopologyAtom_topology_bonds(atomi)
    IN  \E n \in 1..Len(top_bonds) :
            LET top_atoms == TopologyBond_atoms(top_bonds[n])
            IN  \E p \in 1..2 :
                    /\ ~SameAtom(top_atoms[p], atomi)
                    /\ SameAtom(top_atoms[p], atomj)

\* Topology.is_bonded: i and j are ints or TopologyAtoms.
is_bonded(T, i, j) ==
    IF i.kind = "int" /\ j.kind = "int"
    THEN LET atomi == Topology_atom(T, i.value)
             atomj == Topology_atom(T, j.value)
         IN  IF atomi.kind # "TopologyAtom" THEN atomi
             ELSE IF atomj.kind # "TopologyAtom" THEN atomj
             ELSE IF BondedLoops(atomi, atomj) THEN PyTrue ELSE PyFalse
    ELSE IF i.kind = "TopologyAtom" /\ j.kind = "TopologyAtom"
    THEN IF BondedLoops(i, j) THEN PyTrue ELSE PyFalse
    ELSE Exception(
             "Invalid input passed to is_bonded(). Expected ints or TopologyAtoms, got {} and {}",
             <<i, j>>)

\* Topology.assert_bonded: what the call raised, None when it returned.
assert_bonded(T, atom1, atom2) ==
    LET ints == atom1.kind = "int" /\ atom2.kind = "int"
        a1 == IF ints THEN Topology_atom(T, atom1.value) ELSE atom1
        a2 == IF ints THEN Topology_atom(T, atom2.value) ELSE atom2
    IN  IF ints /\ a1.kind # "TopologyAtom" THEN a1
        ELSE IF ints /\ a2.kind # "TopologyAtom" THEN a2
        ELSE LET bonded == is_bonded(T, a1, a2)
             IN  IF bonded = PyTrue THEN None
                 ELSE IF bonded = PyFalse
                 THEN Exception("Atoms {} and {} are not bonded in topology",
                                <<a1, a2>>)
                 ELSE bonded

\* The atom indices passed to is_bonded and assert_bonded: i over the valid
\* indices, j over the valid indices from i to two places after it; and one
\* pair with i below the valid range.
BondedArguments(T) ==
    {ij \in (-1..(Topology_n_atoms(T) - 1)) \X (0..(Topology_n_atoms(T) - 1)) :
        IF ij[1] = -1 THEN ij[2] = 0 ELSE ij[2] - ij[1] \in 0..2}

(***************************************************************************)
(* Topology.__init__(other) and the static method Topology.from_molecules. *)
(***************************************************************************)
\* isinstance(other, Molecule)
is_molecule(other) == "species" \in DOMAIN other

\* Topology.from_molecules(molecules): a new Topology to which the molecules
\* are added in order; the method returns it.
RECURSIVE from_molecules(_)
from_molecules(molecules) ==
    IF molecules = <<>> THEN initialize
    ELSE add_molecule(from_molecules(SubSeq(molecules, 1, Len(molecules) - 1)),
                      molecules[Len(molecules)]).topology

\* Topology.__init__(other) for other a Molecule or None: self is
\* initialized blank; for a Molecule, self.from_molecules([other]) builds
\* and returns another Topology, and __init__ does not use what it returns.
Topology_init(other) ==
    LET self     == initialize
        returned == IF is_molecule(other) THEN from_molecules(<<other>>)
                    ELSE initialize
    IN  self

(***************************************************************************)
(* Topology.add_molecule, statement by statement, for calls made by more   *)
(* than one thread.                                                        *)
(***************************************************************************)
\* The threads that call add_molecule.
Threads == {1, 2}

\* A thread that is not in a call.
Idle ==
    [pc |-> "idle", molecule |-> None, found |-> FALSE,
     reference_molecule |-> None]

\* No thread is in a call; FrozenMolecule keys compare by object identity.
NoCalls ==
    /\ calls = [t \in Threads |-> Idle]
    /\ key_eq = "identity"
    /\ overlapped = FALSE

\* key == reference_molecule for a key of the dict: by object identity, or
\* by FrozenMolecule.__eq__ and __hash__ on the SMILES.
KeyMatches(eq, key, reference_molecule) ==
    IF eq = "identity" THEN key.id = reference_molecule.id
    ELSE to_smiles(key) = to_smiles(reference_molecule)

\* Position of the key that matches, 0 when there is none.
KeyPosition(d, eq, reference_molecule) ==
    IF \E i \in 1..Len(d) : KeyMatches(eq, d[i].key, reference_molecule)
    THEN CHOOSE i \in 1..Len(d) : KeyMatches(eq, d[i].key, reference_molecule)
    ELSE 0

\* self._reference_molecule_to_topology_molecules[reference_molecule] = list()
set_empty_list(d, eq, reference_molecule) ==
    IF KeyPosition(d, eq, reference_molecule) = 0
    THEN Append(d, [key |-> reference_molecule, val |-> <<>>])
    ELSE [d EXCEPT ![KeyPosition(d, eq, reference_molecule)].val = <<>>]

\* Variant of the append to the reference molecule's list that appends
\* nothing.
append_to_reference_skipped(d, eq, reference_molecule, topology_molecule) == d

\* self._reference_molecule_to_topology_molecules[reference_molecule].append(...)
append_to_reference(d, eq, reference_molecule, topology_molecule) ==
    [d EXCEPT ![KeyPosition(d, eq, reference_molecule)].val =
                  Append(@, topology_molecule)]

\* A call is between its first and its last statement.
InFlight(call) == call.pc \notin {"idle", "done"}

\* No canonical-key dict is in play.
NoDict ==
    /\ dict_class = "none"
    /\ store = <<>>
    /\ key0 = <<>>

\* Topology.__init__: a blank Topology.
BlankTopology ==
    /\ topology_molecules = initialize.topology_molecules
    /\ reference_molecule_to_topology_molecules =
           initialize.reference_molecule_to_topology_molecules
    /\ added = <<>>
    /\ op = "init"
    /\ arg = None
    /\ result = None
    /\ constrained_atom_pairs = initialize_metadata.constrained_atom_pairs
    /\ box_vectors = initialize_metadata.box_vectors
    /\ aromaticity_model = initialize_metadata.aromaticity_model
    /\ charge_model = Unset
    /\ fractional_bond_order_model = Unset

\* A blank Topology that a single thread uses.
InitTopology ==
    /\ BlankTopology
    /\ NoCalls

Init ==
    /\ InitTopology
    /\ NoDict

AddMolecule ==
    /\ Len(topology_molecules) < MaxMolecules
    /\ \E molecule \in AddableMolecules :
        LET r == add_molecule(Self, molecule)
        IN  /\ topology_molecules' = r.topology.topology_molecules
            /\ reference_molecule_to_topology_molecules' =
                   r.topology.reference_molecule_to_topology_molecules
            /\ added' = Append(added, molecule)
            /\ op' = "add_molecule"
            /\ arg' = molecule
            /\ result' = IntVal(r.index)
            /\ UNCHANGED call_state
            /\ UNCHANGED <<metadata, dict_state>>

\* A caller reads Topology.atom(k); k ranges past both ends of the valid range.
CallAtom ==
    \E k \in -1..Topology_n_atoms(Self) :
        /\ op' = "atom"
        /\ arg' = IntVal(k)
        /\ result' = Topology_atom(Self, k)
        /\ UNCHANGED call_state
        /\ UNCHANGED <<molecule_state, metadata, dict_state>>

CallBond ==
    \E k \in -1..Topology_n_bonds(Self) :
        /\ op' = "bond"
        /\ arg' = IntVal(k)
        /\ result' = Topology_bond(Self, k)
        /\ UNCHANGED call_state
        /\ UNCHANGED <<molecule_state, metadata, dict_state>>

CallVirtualSite ==
    \E k \in -1..Topology_n_virtual_sites(Self) :
        /\ op' = "virtual_site"
        /\ arg' = IntVal(k)
        /\ result' = Topology_virtual_site(Self, k)
        /\ UNCHANGED call_state
        /\ UNCHANGED <<molecule_state, metadata, dict_state>>

CallChemicalEnvironmentMatches ==
    \E query \in Queries :
        /\ op' = "chemical_environment_matches"
        /\ arg' = query
        /\ result' = chemical_environment_matches(Self, query)
        /\ UNCHANGED call_state
        /\ UNCHANGED <<molecule_state, metadata, dict_state>>

Next ==
    \/ AddMolecule
    \/ CallAtom
    \/ CallBond
    \/ CallVirtualSite
    \/ CallChemicalEnvironmentMatches

Spec == Init /\ [][Next]_vars

\* Topology.from_openmm(openmm_topology, unique_molecules), a constructor: it
\* runs once, on a blank Topology.  On success the variables describe the
\* Topology returned; when the call raises, the caller gets no Topology.
FromOpenmm ==
    /\ op = "init"
    /\ \E components \in SeqUpTo(OpenmmComponents, MaxComponents) :
       \E unique_molecules \in SeqUpTo(CandidateMolecules, MaxUnique) :
        LET r == from_openmm(OpenmmTopology(components), unique_molecules)
            T == IF r.kind = "Topology" THEN r.topology ELSE initialize
        IN  /\ topology_molecules' = T.topology_molecules
            /\ reference_molecule_to_topology_molecules' =
                   T.reference_molecule_to_topology_molecules
            /\ added' = IF r.kind = "Topology" THEN r.added ELSE <<>>
            /\ op' = "from_openmm"
            /\ arg' = [components |-> components,
                       unique_molecules |-> unique_molecules]
            /\ result' = IF r.kind = "Topology" THEN [kind |-> "Topology"] ELSE r
            /\ UNCHANGED call_state
            /\ UNCHANGED <<metadata, dict_state>>

NextOpenmm == FromOpenmm

SpecOpenmm == Init /\ [][NextOpenmm]_vars


\* Topology.add_constraint(iatom, jatom, distance)
AddConstraint ==
    \E iatom \in AtomIndices, jatom \in AtomIndices, distance \in Distances :
        LET r == add_constraint(constrained_atom_pairs, iatom, jatom, distance)
        IN  /\ constrained_atom_pairs' = r.pairs
            /\ op' = "add_constraint"
            /\ arg' = [iatom |-> iatom, jatom |-> jatom, distance |-> distance]
            /\ result' = r.raised
            /\ UNCHANGED call_state
            /\ UNCHANGED <<molecule_state, box_vectors, aromaticity_model,
                           charge_model, fractional_bond_order_model, dict_state>>

\* Topology.is_constrained(iatom, jatom)
IsConstrained ==
    \E iatom \in AtomIndices, jatom \in AtomIndices :
        /\ op' = "is_constrained"
        /\ arg' = [iatom |-> iatom, jatom |-> jatom]
        /\ result' = is_constrained(constrained_atom_pairs, iatom, jatom)
        /\ UNCHANGED call_state
        /\ UNCHANGED <<molecule_state, metadata, dict_state>>

NextConstraints ==
    \/ AddConstraint
    \/ IsConstrained

SpecConstraints == Init /\ [][NextConstraints]_vars


\* ValenceDict() or ImproperDict(): an empty dict, and the key its callers use.
InitDict ==
    /\ InitTopology
    /\ dict_class \in {"ValenceDict", "ImproperDict"}
    /\ key0 \in KeysOf(dict_class)
    /\ store = <<>>

\* d[key] = value
DictSetItem ==
    \E key \in Rewritings(dict_class, key0) \cup {OtherKey(key0)},
       value \in DictValues :
        /\ store' = setitem(dict_class, store, key, value)
        /\ op' = "setitem"
        /\ arg' = [key |-> key, value |-> value]
        /\ result' = None
        /\ UNCHANGED call_state
        /\ UNCHANGED <<molecule_state, metadata, dict_class, key0>>

\* d[key]
DictGetItem ==
    \E key \in Rewritings(dict_class, key0) \cup {OtherKey(key0)} :
        /\ op' = "getitem"
        /\ arg' = [key |-> key, value |-> None]
        /\ result' = getitem(dict_class, store, key)
        /\ UNCHANGED call_state
        /\ UNCHANGED <<molecule_state, metadata, dict_state>>

\* del d[key]
DictDelItem ==
    \E key \in Rewritings(dict_class, key0) \cup {OtherKey(key0)} :
        LET r == delitem(dict_class, store, key)
        IN  /\ store' = r.store
            /\ op' = "delitem"
            /\ arg' = [key |-> key, value |-> None]
            /\ result' = r.raised
            /\ UNCHANGED call_state
            /\ UNCHANGED <<molecule_state, metadata, dict_class, key0>>

NextDict ==
    \/ DictSetItem
    \/ DictGetItem
    \/ DictDelItem

SpecDict == InitDict /\ [][NextDict]_vars


\* The local indices passed to a TopologyMolecule lookup with n entities:
\* they range past both ends of 0 <= index < n.
LocalIndices(n) == (-n - 1)..(n + 1)

\* topology_molecule.atom(index) on an instance of the Topology.
CallInstanceAtom ==
    \E i \in 1..Len(topology_molecules) :
        \E index \in LocalIndices(TopologyMolecule_n_atoms(topology_molecules[i])) :
            /\ op' = "TopologyMolecule.atom"
            /\ arg' = [instance |-> i, index |-> index]
            /\ result' = TopologyMolecule_atom(topology_molecules[i], index)
            /\ UNCHANGED call_state
            /\ UNCHANGED <<molecule_state, metadata, dict_state>>

\* topology_molecule.bond(index)
CallInstanceBond ==
    \E i \in 1..Len(topology_molecules) :
        \E index \in LocalIndices(TopologyMolecule_n_bonds(topology_molecules[i])) :
            /\ op' = "TopologyMolecule.bond"
            /\ arg' = [instance |-> i, index |-> index]
            /\ result' = TopologyMolecule_bond(topology_molecules[i], index)
            /\ UNCHANGED call_state
            /\ UNCHANGED <<molecule_state, metadata, dict_state>>

\* topology_molecule.virtual_site(index)
CallInstanceVirtualSite ==
    \E i \in 1..Len(topology_molecules) :
        \E index \in LocalIndices(TopologyMolecule_n_virtual_sites(topology_molecules[i])) :
            /\ op' = "TopologyMolecule.virtual_site"
            /\ arg' = [instance |-> i, index |-> index]
            /\ result' = TopologyMolecule_virtual_site(topology_molecules[i], index)
            /\ UNCHANGED call_state
            /\ UNCHANGED <<molecule_state, metadata, dict_state>>

\* topology_molecule.particle(index)
CallInstanceParticle ==
    \E i \in 1..Len(topology_molecules) :
        \E index \in LocalIndices(TopologyMolecule_n_particles(topology_molecules[i])) :
            /\ op' = "TopologyMolecule.particle"
            /\ arg' = [instance |-> i, index |-> index]
            /\ result' = TopologyMolecule_particle(topology_molecules[i], index)
            /\ UNCHANGED call_state
            /\ UNCHANGED <<molecule_state, metadata, dict_state>>

\* The views of one kind that an instance of the Topology hands out.
ViewsOf(kind, i) ==
    LET tm == topology_molecules[i]
    IN  IF kind = "TopologyAtom"
        THEN {TopologyMolecule_atom(tm, index) :
                 index \in 0..(TopologyMolecule_n_atoms(tm) - 1)}
        ELSE IF kind = "TopologyBond"
        THEN {TopologyMolecule_bond(tm, index) :
                 index \in 0..(TopologyMolecule_n_bonds(tm) - 1)}
        ELSE {TopologyMolecule_virtual_site(tm, index) :
                 index \in 0..(TopologyMolecule_n_virtual_sites(tm) - 1)}

\* left == right, for a view of the first instance and a view of the same
\* kind of any instance, obtained by two lookups (two objects), or for one
\* view object compared with itself.
CompareViews ==
    \E kind \in {"TopologyAtom", "TopologyBond", "TopologyVirtualSite"},
       i \in 1..Len(topology_molecules) :
        \E left \in ViewsOf(kind, 1), right \in ViewsOf(kind, i), oid \in {1, 2} :
            /\ oid = 1 => left = right
            /\ op' = "eq"
            /\ arg' = [left |-> Object(left, 1), right |-> Object(right, oid)]
            /\ result' = IF view_eq(Object(left, 1), Object(right, oid))
                         THEN PyTrue ELSE PyFalse
            /\ UNCHANGED call_state
            /\ UNCHANGED <<molecule_state, metadata, dict_state>>

NextInstance ==
    \/ AddMolecule
    \/ CallInstanceAtom
    \/ CallInstanceBond
    \/ CallInstanceVirtualSite
    \/ CallInstanceParticle
    \/ CompareViews

SpecInstance == Init /\ [][NextInstance]_vars


\* topology.box_vectors = new_box_vectors
SetBoxVectors ==
    \E new_box_vectors \in BoxVectorInputs :
        LET r == box_vectors_setter(box_vectors, new_box_vectors)
        IN  /\ box_vectors' = r.stored
            /\ op' = "box_vectors.setter"
            /\ arg' = new_box_vectors
            /\ result' = r.raised
            /\ UNCHANGED call_state
            /\ UNCHANGED <<molecule_state, constrained_atom_pairs,
                           aromaticity_model, charge_model,
                           fractional_bond_order_model, dict_state>>

\* topology.box_vectors
GetBoxVectors ==
    /\ op' = "box_vectors"
    /\ arg' = None
    /\ result' = box_vectors_getter(box_vectors)
    /\ UNCHANGED call_state
    /\ UNCHANGED <<molecule_state, metadata, dict_state>>

\* topology.aromaticity_model = model
SetAromaticityModel ==
    \E model \in ModelInputs :
        LET r == aromaticity_model_setter(aromaticity_model, model)
        IN  /\ aromaticity_model' = r.model
            /\ op' = "aromaticity_model.setter"
            /\ arg' = Str(model)
            /\ result' = r.raised
            /\ UNCHANGED call_state
            /\ UNCHANGED <<molecule_state, constrained_atom_pairs, box_vectors,
                           charge_model, fractional_bond_order_model,
                           dict_state>>

\* topology.charge_model = model
SetChargeModel ==
    \E model \in ModelInputs :
        LET r == charge_model_setter(charge_model, model)
        IN  /\ charge_model' = r.model
            /\ op' = "charge_model.setter"
            /\ arg' = Str(model)
            /\ result' = r.raised
            /\ UNCHANGED call_state
            /\ UNCHANGED <<molecule_state, constrained_atom_pairs, box_vectors,
                           aromaticity_model, fractional_bond_order_model,
                           dict_state>>

\* topology.fractional_bond_order_model = model
SetFractionalBondOrderModel ==
    \E model \in ModelInputs :
        LET r == fractional_bond_order_model_setter(fractional_bond_order_model, model)
        IN  /\ fractional_bond_order_model' = r.model
            /\ op' = "fractional_bond_order_model.setter"
            /\ arg' = Str(model)
            /\ result' = r.raised
            /\ UNCHANGED call_state
            /\ UNCHANGED <<molecule_state, constrained_atom_pairs, box_vectors,
                           aromaticity_model, charge_model, dict_state>>

NextMetadata ==
    \/ SetBoxVectors
    \/ GetBoxVectors
    \/ SetAromaticityModel
    \/ SetChargeModel
    \/ SetFractionalBondOrderModel

SpecMetadata == Init /\ [][NextMetadata]_vars


\* A Topology on which add_constraint(0, 1, True) and the box_vectors setter
\* may have been called before any molecule is added.
InitFrame ==
    /\ topology_molecules = initialize.topology_molecules
    /\ reference_molecule_to_topology_molecules =
           initialize.reference_molecule_to_topology_molecules
    /\ added = <<>>
    /\ op = "init"
    /\ arg = None
    /\ result = None
    /\ constrained_atom_pairs \in
           {initialize_metadata.constrained_atom_pairs,
            add_constraint(initialize_metadata.constrained_atom_pairs,
                           0, 1, PyTrue).pairs}
    /\ box_vectors \in
           {initialize_metadata.box_vectors,
            box_vectors_setter(initialize_metadata.box_vectors,
                               Quantity(1, "nanometer", <<3>>)).stored}
    /\ aromaticity_model = initialize_metadata.aromaticity_model
    /\ charge_model = Unset
    /\ fractional_bond_order_model = Unset
    /\ NoDict
    /\ NoCalls

NextFrame == AddMolecule

SpecFrame == InitFrame /\ [][NextFrame]_vars


\* topology.is_bonded(i, j)
CallIsBonded ==
    \E ij \in BondedArguments(Self) :
        /\ op' = "is_bonded"
        /\ arg' = [i |-> ij[1], j |-> ij[2]]
        /\ result' = is_bonded(Self, IntVal(ij[1]), IntVal(ij[2]))
        /\ UNCHANGED call_state
        /\ UNCHANGED <<molecule_state, metadata, dict_state>>

\* topology.assert_bonded(atom1, atom2)
CallAssertBonded ==
    \E ij \in BondedArguments(Self) :
        /\ op' = "assert_bonded"
        /\ arg' = [i |-> ij[1], j |-> ij[2]]
        /\ result' = assert_bonded(Self, IntVal(ij[1]), IntVal(ij[2]))
        /\ UNCHANGED call_state
        /\ UNCHANGED <<molecule_state, metadata, dict_state>>

NextBonded ==
    \/ AddMolecule
    \/ CallIsBonded
    \/ CallAssertBonded

SpecBonded == Init /\ [][NextBonded]_vars


\* A blank Topology shared by the threads; FrozenMolecule keys compare by
\* identity or by SMILES.
InitConcurrent ==
    /\ BlankTopology
    /\ NoDict
    /\ calls = [t \in Threads |-> Idle]
    /\ key_eq \in {"identity", "smiles"}
    /\ overlapped = FALSE

\* The molecules that the threads add: one species in both atom orders and
\* another species.
ThreadMolecules == {m \in AddableMolecules : m.species \in {"helium", "water"}}

\* Lines 2088-2095 in thread t: the call starts and scans the keys for a
\* reference molecule with the SMILES of the molecule.
Scan(t) ==
    /\ ~InFlight(calls[t])
    /\ Len(topology_molecules)
           + Cardinality({u \in Threads : calls[u].pc \in {"scanned", "registered"}})
           < MaxMolecules
    /\ \E molecule \in ThreadMolecules :
        LET found == FindReference(reference_molecule_to_topology_molecules,
                                   to_smiles(molecule), 1)
        IN  /\ calls' = [calls EXCEPT ![t] =
                   [pc |-> "scanned", molecule |-> molecule,
                    found |-> found # 0,
                    reference_molecule |->
                        IF found = 0 THEN None
                        ELSE reference_molecule_to_topology_molecules[found].key]]
            /\ overlapped' = (overlapped \/ \E u \in Threads \ {t} : InFlight(calls[u]))
            /\ op' = "add_molecule: scan"
            /\ arg' = molecule
            /\ result' = None
            /\ UNCHANGED <<molecule_state, metadata, dict_state, key_eq>>

\* Lines 2096-2099 in thread t: a molecule that was not found is frozen and
\* given an empty list.
Register(t) ==
    /\ calls[t].pc = "scanned"
    /\ LET reference_molecule ==
               IF calls[t].found THEN calls[t].reference_molecule
               ELSE FrozenMolecule(calls[t].molecule,
                                   10 * t + Len(topology_molecules) + 1)
       IN  /\ reference_molecule_to_topology_molecules' =
                  IF calls[t].found THEN reference_molecule_to_topology_molecules
                  ELSE set_empty_list(reference_molecule_to_topology_molecules,
                                      key_eq, reference_molecule)
           /\ calls' = [calls EXCEPT ![t].pc = "registered",
                                     ![t].reference_molecule = reference_molecule]
    /\ op' = "add_molecule: register"
    /\ arg' = calls[t].molecule
    /\ result' = None
    /\ UNCHANGED <<topology_molecules, added, metadata, dict_state, key_eq,
                   overlapped>>

\* Lines 2101-2102 in thread t: the new TopologyMolecule goes to the end of
\* the instance list.
AppendGlobal(t) ==
    /\ calls[t].pc = "registered"
    /\ topology_molecules' =
           Append(topology_molecules,
                  TopologyMolecule(calls[t].reference_molecule,
                                   Len(topology_molecules) + 1))
    /\ added' = Append(added, calls[t].molecule)
    /\ calls' = [calls EXCEPT ![t].pc = "appended"]
    /\ op' = "add_molecule: append"
    /\ arg' = calls[t].molecule
    /\ result' = None
    /\ UNCHANGED <<reference_molecule_to_topology_molecules, metadata,
                   dict_state, key_eq, overlapped>>

\* Line 2103 in thread t: the last instance of the list goes to the list of
\* the reference molecule.
AppendReference(t) ==
    /\ calls[t].pc = "appended"
    /\ reference_molecule_to_topology_molecules' =
           append_to_reference(reference_molecule_to_topology_molecules, key_eq,
                               calls[t].reference_molecule,
                               topology_molecules[Len(topology_molecules)])
    /\ calls' = [calls EXCEPT ![t].pc = "listed"]
    /\ op' = "add_molecule: list"
    /\ arg' = calls[t].molecule
    /\ result' = None
    /\ UNCHANGED <<topology_molecules, added, metadata, dict_state, key_eq,
                   overlapped>>

\* Lines 2105-2106 in thread t: the call returns the length of the list.
Return(t) ==
    /\ calls[t].pc = "listed"
    /\ calls' = [calls EXCEPT ![t].pc = "done"]
    /\ op' = "add_molecule"
    /\ arg' = calls[t].molecule
    /\ result' = IntVal(Len(topology_molecules))
    /\ UNCHANGED <<molecule_state, metadata, dict_state, key_eq, overlapped>>

\* A reader evaluates Topology.n_atoms between two statements of the others.
ReadNAtoms ==
    /\ op' = "n_atoms"
    /\ arg' = None
    /\ result' = IntVal(Topology_n_atoms(Self))
    /\ UNCHANGED <<molecule_state, metadata, dict_state, call_state>>

NextConcurrent ==
    \/ \E t \in Threads : Scan(t)
    \/ \E t \in Threads : Register(t)
    \/ \E t \in Threads : AppendGlobal(t)
    \/ \E t \in Threads : AppendReference(t)
    \/ \E t \in Threads : Return(t)
    \/ ReadNAtoms

SpecConcurrent == InitConcurrent /\ [][NextConcurrent]_vars


\* Topology(other) with other a Molecule or None.
Construct ==
    /\ op = "init"
    /\ \E other \in Molecules \cup {None} :
        /\ topology_molecules' = Topology_init(other).topology_molecules
        /\ reference_molecule_to_topology_molecules' =
               Topology_init(other).reference_molecule_to_topology_molecules
        /\ added' = <<>>
        /\ op' = "Topology"
        /\ arg' = other
        /\ result' = None
    /\ UNCHANGED call_state
    /\ UNCHANGED <<metadata, dict_state>>

\* Topology.from_molecules(molecules).
FromMolecules ==
    /\ op = "init"
    /\ \E molecules \in SeqUpTo(AddableMolecules, MaxMolecules) :
        /\ topology_molecules' = from_molecules(molecules).topology_molecules
        /\ reference_molecule_to_topology_molecules' =
               from_molecules(molecules).reference_molecule_to_topology_molecules
        /\ added' = molecules
        /\ op' = "from_molecules"
        /\ arg' = ListVal(molecules)
        /\ result' = None
    /\ UNCHANGED call_state
    /\ UNCHANGED <<metadata, dict_state>>

NextConstruct ==
    \/ Construct
    \/ FromMolecules
    \/ AddMolecule

SpecConstruct == Init /\ [][NextConstruct]_vars

(***************************************************************************)
(* Properties of global indexing and of add_molecule.                      *)
(***************************************************************************)
\* Sum of count(m) over the instances that precede position i.
CountBefore(tms, i, count(_)) ==
    SumSeq([j \in 1..(i - 1) |-> count(tms[j])])

\* C1: every valid global index k resolves to a view (the lookup never falls
\* through) whose global index is k again, for atoms, bonds and virtual
\* sites, whatever instances (also ones without bonds or virtual sites)
\* come before; the result of the last lookup is such a view.
C1_IndexRoundTrip ==
    /\ \A k \in 0..(Topology_n_atoms(Self) - 1) :
          LET v == Topology_atom(Self, k)
          IN  v.kind = "TopologyAtom" /\ topology_atom_index(Self, v) = IntVal(k)
    /\ \A k \in 0..(Topology_n_bonds(Self) - 1) :
          LET v == Topology_bond(Self, k)
          IN  v.kind = "TopologyBond" /\ topology_bond_index(Self, v) = IntVal(k)
    /\ \A k \in 0..(Topology_n_virtual_sites(Self) - 1) :
          LET v == Topology_virtual_site(Self, k)
          IN  /\ v.kind = "TopologyVirtualSite"
              /\ topology_virtual_site_index(Self, v) = IntVal(k)
    /\ (op = "atom" /\ 0 <= arg.value /\ arg.value < Topology_n_atoms(Self))
          => (result.kind = "TopologyAtom"
                 /\ topology_atom_index(Self, result) = arg)
    /\ (op = "bond" /\ 0 <= arg.value /\ arg.value < Topology_n_bonds(Self))
          => (result.kind = "TopologyBond"
                 /\ topology_bond_index(Self, result) = arg)
    /\ (op = "virtual_site" /\ 0 <= arg.value
            /\ arg.value < Topology_n_virtual_sites(Self))
          => (result.kind = "TopologyVirtualSite"
                 /\ topology_virtual_site_index(Self, result) = arg)

\* A bond lookup answered from the third instance, behind an instance whose
\* reference molecule has no bonds and no virtual sites.
C1_Witness ==
    /\ op = "bond"
    /\ result.kind = "TopologyBond"
    /\ result.topology_molecule.id = 3
    /\ \E i \in 1..2 :
          /\ TopologyMolecule_n_bonds(topology_molecules[i]) = 0
          /\ TopologyMolecule_n_virtual_sites(topology_molecules[i]) = 0
    /\ arg.value > 0

\* C2: the four start indices of every instance equal the sum of the counts
\* of the instances before it in insertion order, and the global index of
\* each of its entities is that sum plus the local index.
C2_StartIndexIsPrefixSum ==
    \A i \in 1..Len(topology_molecules) :
        LET m == topology_molecules[i]
        IN  /\ atom_start_topology_index(Self, m) =
                   IntVal(CountBefore(topology_molecules, i, TopologyMolecule_n_atoms))
            /\ bond_start_topology_index(Self, m) =
                   IntVal(CountBefore(topology_molecules, i, TopologyMolecule_n_bonds))
            /\ particle_start_topology_index(Self, m) =
                   IntVal(CountBefore(topology_molecules, i,
                                      TopologyMolecule_n_particles))
            /\ virtual_site_start_topology_index(Self, m) =
                   IntVal(CountBefore(topology_molecules, i,
                                      TopologyMolecule_n_virtual_sites))
            /\ \A j \in 0..(TopologyMolecule_n_atoms(m) - 1) :
                   topology_atom_index(Self, TopologyMolecule_atom(m, j)) =
                       IntVal(CountBefore(topology_molecules, i,
                                          TopologyMolecule_n_atoms) + j)
            /\ \A j \in 0..(TopologyMolecule_n_bonds(m) - 1) :
                   topology_bond_index(Self, TopologyMolecule_bond(m, j)) =
                       IntVal(CountBefore(topology_molecules, i,
                                          TopologyMolecule_n_bonds) + j)
            /\ \A j \in 0..(TopologyMolecule_n_virtual_sites(m) - 1) :
                   topology_virtual_site_index(Self,
                           TopologyMolecule_virtual_site(m, j)) =
                       IntVal(CountBefore(topology_molecules, i,
                                          TopologyMolecule_n_virtual_sites) + j)

\* add_molecule has just added a third instance that shares its reference
\* molecule with the first one and starts behind a different molecule.
C2_Witness ==
    /\ op = "add_molecule"
    /\ Len(topology_molecules) = 3
    /\ topology_molecules[3].reference_molecule =
           topology_molecules[1].reference_molecule
    /\ topology_molecules[2].reference_molecule #
           topology_molecules[1].reference_molecule
    /\ bond_start_topology_index(Self, topology_molecules[3]).value > 0
    /\ virtual_site_start_topology_index(Self, topology_molecules[3]).value > 0

\* C3: each aggregate counter (count per reference molecule times number of
\* its instances) equals the sum of the per-instance counts.
C3_AggregateEqualsInstanceSum ==
    LET n == Len(topology_molecules)
    IN  /\ Topology_n_atoms(Self) =
               CountBefore(topology_molecules, n + 1, TopologyMolecule_n_atoms)
        /\ Topology_n_bonds(Self) =
               CountBefore(topology_molecules, n + 1, TopologyMolecule_n_bonds)
        /\ Topology_n_particles(Self) =
               CountBefore(topology_molecules, n + 1, TopologyMolecule_n_particles)
        /\ Topology_n_virtual_sites(Self) =
               CountBefore(topology_molecules, n + 1,
                           TopologyMolecule_n_virtual_sites)

\* Three instances over two reference molecules, one of them reused.
C3_Witness ==
    /\ op = "add_molecule"
    /\ Len(topology_molecules) = 3
    /\ n_reference_molecules(Self) = 2
    /\ Topology_n_virtual_sites(Self) > 0
    /\ Topology_n_bonds(Self) > 0

\* C4: there are as many reference molecules as distinct SMILES among the
\* molecules added, as many instances as calls, and no two reference
\* molecules share a SMILES; N additions of one SMILES give one reference
\* molecule and N instances.
C4_OneReferencePerFingerprint ==
    LET refs == reference_molecules(Self)
    IN  /\ n_reference_molecules(Self) =
               Cardinality({to_smiles(added[i]) : i \in 1..Len(added)})
        /\ n_molecules(Self) = Len(added)
        /\ \A i, j \in 1..Len(refs) :
               to_smiles(refs[i]) = to_smiles(refs[j]) => i = j
        /\ (Len(added) >= 1
              /\ \A i \in 1..Len(added) : to_smiles(added[i]) = to_smiles(added[1]))
           => (n_reference_molecules(Self) = 1
                 /\ n_molecules(Self) = Len(added))

\* The same species was added three times, listed in both atom orders.
C4_Witness ==
    /\ Len(added) = 3
    /\ \A i \in 1..3 : to_smiles(added[i]) = to_smiles(added[1])
    /\ added[1].ordering # added[2].ordering
    /\ n_reference_molecules(Self) = 1

MatchesOfReference(i, smarts) ==
    Molecule_chemical_environment_matches(reference_molecules(Self)[i], smarts)

\* The instances of the i-th reference molecule, read off the global
\* instance list in the order they were added.
InstancesInAddedOrder(i) ==
    SelectSeq(topology_molecules,
              LAMBDA m : m.reference_molecule.id = reference_molecules(Self)[i].id)

\* The call of add_molecule that first brought the SMILES of a reference
\* molecule into the Topology.
FirstAdded(reference_molecule) ==
    CHOOSE a \in 1..Len(added) :
        /\ to_smiles(added[a]) = to_smiles(reference_molecule)
        /\ \A b \in 1..(a - 1) : to_smiles(added[b]) # to_smiles(reference_molecule)

\* The tuple x is the translation of the local match t for the instance m.
IsTranslation(x, t, m) ==
    /\ Len(x) = Len(t)
    /\ \A p \in 1..Len(t) :
          /\ x[p].kind = "TopologyAtom"
          /\ TopologyMolecule_eq(x[p].topology_molecule, m)
          /\ x[p].atom = Atom(m.reference_molecule, t[p])
          /\ topology_atom_index(Self, x[p]) =
                 IntVal(atom_start_topology_index(Self, m).value + t[p])

\* C6: the result holds, for each reference molecule, each of its matches t
\* and each of its instances m, exactly one tuple of TopologyAtom views that
\* belong to m and have global index start(m) + t[p]; its length is the sum
\* of matches times instances; an empty Topology gives an empty result.
C6_MatchesUnrolledPerInstance ==
    (op = "chemical_environment_matches" /\ arg.type # "int") =>
        LET n == n_reference_molecules(Self)
            M(i) == MatchesOfReference(i, arg.smarts)
            I(i) == InstancesInAddedOrder(i)
        IN  /\ result.kind = "list"
            /\ Len(result.value) = SumSeq([i \in 1..n |-> Len(M(i)) * Len(I(i))])
            /\ \A i \in 1..n : \A j \in 1..Len(M(i)) : \A k \in 1..Len(I(i)) :
                   Cardinality({x \in 1..Len(result.value) :
                                   IsTranslation(result.value[x], M(i)[j], I(i)[k])})
                       = 1
            /\ (topology_molecules = <<>> => result.value = <<>>)

\* Bond matches unrolled over two reference molecules, one with two instances.
C6_Witness ==
    /\ op = "chemical_environment_matches"
    /\ arg.smarts = "[*:1]~[*:2]"
    /\ result.kind = "list"
    /\ n_reference_molecules(Self) = 2
    /\ Len(topology_molecules) = 3
    /\ Len(result.value) >= 6

\* C7: the result is ordered by reference molecule (first-seen order), then
\* by match (toolkit order), then by instance (order of addition): the tuple
\* for reference molecule i, match j and the k-th instance stands at position
\* (tuples of earlier reference molecules) + (j - 1) * instances + k.
C7_ResultOrder ==
    (op = "chemical_environment_matches" /\ arg.type # "int") =>
        LET n == n_reference_molecules(Self)
            M(i) == MatchesOfReference(i, arg.smarts)
            I(i) == InstancesInAddedOrder(i)
            Before(i) == SumSeq([h \in 1..(i - 1) |-> Len(M(h)) * Len(I(h))])
        IN  /\ result.kind = "list"
            /\ \A i \in 1..n : \A j \in 1..Len(M(i)) : \A k \in 1..Len(I(i)) :
                   LET x == Before(i) + (j - 1) * Len(I(i)) + k
                   IN  /\ x <= Len(result.value)
                       /\ IsTranslation(result.value[x], M(i)[j], I(i)[k])
            /\ \A i, h \in 1..n :
                   (i < h) => FirstAdded(reference_molecules(Self)[i])
                                  < FirstAdded(reference_molecules(Self)[h])

\* A reference molecule with at least two matches and two instances that
\* are separated in the instance list by an instance of another molecule.
C7_Witness ==
    /\ op = "chemical_environment_matches"
    /\ result.kind = "list"
    /\ Len(topology_molecules) = 3
    /\ topology_molecules[1].reference_molecule =
           topology_molecules[3].reference_molecule
    /\ topology_molecules[1].reference_molecule #
           topology_molecules[2].reference_molecule
    /\ Len(MatchesOfReference(1, arg.smarts)) >= 2
    /\ Len(MatchesOfReference(2, arg.smarts)) >= 1


(***************************************************************************)
(* Properties of from_openmm.                                              *)
(***************************************************************************)
\* Every bond of the OpenMM topology made of the components carries an order.
AllBondsHaveOrders(components) ==
    \A c \in 1..Len(components) :
        components[c].orders \/ Molecule_n_bonds(components[c].molecule) = 0

\* The candidate is isomorphic to the component (atomic numbers equal, bond
\* orders equal when every bond of the OpenMM topology has one).
CandidateFits(candidate, component, components) ==
    is_isomorphic(to_networkx(candidate, 0), to_networkx(component.molecule, 0),
                  AllBondsHaveOrders(components))

\* The positions in unique_molecules of the candidates that fit component c.
Fitting(c) ==
    {k \in 1..Len(arg.unique_molecules) :
        CandidateFits(arg.unique_molecules[k], arg.components[c], arg.components)}

\* The first of them.
FirstFitting(c) == CHOOSE k \in Fitting(c) : \A h \in Fitting(c) : k <= h

\* C8: the Topology returned by from_openmm has one instance per connected
\* component, in component order, and the instance of a component references
\* the reference molecule of the first entry of unique_molecules (in the
\* order supplied) that is isomorphic to the component.
C8_OneInstancePerComponent ==
    (op = "from_openmm" /\ result.kind = "Topology") =>
        /\ n_molecules(Self) = Len(arg.components)
        /\ \A c \in 1..Len(arg.components) :
              /\ Fitting(c) # {}
              /\ to_smiles(topology_molecules[c].reference_molecule) =
                     to_smiles(arg.unique_molecules[FirstFitting(c)])
              /\ added[c] = arg.unique_molecules[FirstFitting(c)]
        /\ n_reference_molecules(Self) =
               Cardinality({to_smiles(arg.unique_molecules[FirstFitting(c)]) :
                               c \in 1..Len(arg.components)})

\* Components {A, A, B} with unique_molecules = [A, B]: three instances of
\* two reference molecules.
C8_Witness ==
    /\ op = "from_openmm"
    /\ result.kind = "Topology"
    /\ Len(arg.components) = 3
    /\ arg.components[1] = arg.components[2]
    /\ arg.components[3].molecule.species # arg.components[1].molecule.species
    /\ Len(arg.unique_molecules) = 2
    /\ n_molecules(Self) = 3
    /\ n_reference_molecules(Self) = 2

\* Some component of the OpenMM topology fits no entry of unique_molecules.
SomeComponentUnmatched ==
    /\ op = "from_openmm"
    /\ \E c \in 1..Len(arg.components) : Fitting(c) = {}

\* The atom indices of component c in the OpenMM topology.
AtomIndicesOf(c) ==
    LET off == Len(OpenmmTopology(SubSeq(arg.components, 1, c - 1)).atoms)
    IN  {off + i : i \in 0..(Molecule_n_atoms(arg.components[c].molecule) - 1)}

\* C9 as stated: when a component matches no candidate, from_openmm raises a
\* condition that identifies the unmatched component (by its position or by
\* its atom indices) and returns no Topology.
C9_RaisedConditionIdentifiesComponent ==
    SomeComponentUnmatched =>
        /\ result.kind = "Exception"
        /\ \E c \in 1..Len(arg.components) :
              /\ Fitting(c) = {}
              /\ \E a \in 1..Len(result.args) :
                    result.args[a] \in {IntVal(c), IntVal(c - 1),
                                        [kind |-> "atoms", value |-> AtomIndicesOf(c)]}
        /\ Self = initialize

\* C9 as amended: when a component matches no candidate, from_openmm raises
\* the exception 'No match found for molecule', which carries nothing about
\* the component, and returns no Topology to the caller.
C9_UnmatchedComponentRaises ==
    SomeComponentUnmatched =>
        /\ result = Exception("No match found for molecule", <<>>)
        /\ Self = initialize
        /\ added = <<>>

\* The first component was matched (and added to the Topology under
\* construction) before the second one turned out to have no match.
C9_Witness ==
    /\ op = "from_openmm"
    /\ result.kind = "Exception"
    /\ Len(arg.components) >= 2
    /\ Fitting(1) # {}
    /\ Fitting(2) = {}

\* Two entries of unique_molecules whose graphs have the same nodes, edges
\* and attributes.
IndistinguishableCandidates ==
    \E i, j \in 1..Len(arg.unique_molecules) :
        /\ i < j
        /\ to_networkx(arg.unique_molecules[i], 0) =
               to_networkx(arg.unique_molecules[j], 0)

\* C10: from_openmm called with two entries of unique_molecules that have
\* indistinguishable graphs raises the conflict exception and matches no
\* component.
C10_IndistinguishableCandidatesRaise ==
    (op = "from_openmm" /\ IndistinguishableCandidates) =>
        /\ result.kind = "Exception"
        /\ result.message =
               "Error: Two unique molecules have indistinguishable graphs: {} and {}"
        /\ Self = initialize


(***************************************************************************)
(* Range checks of the global lookups.                                     *)
(***************************************************************************)
\* C16: Topology.atom(k), bond(k) and virtual_site(k) raise (the assertion
\* on the range fails) and return no view whenever k < 0 or k is not below
\* the total count; on an empty Topology every index fails.
C16_GlobalLookupRangeChecked ==
    /\ \A k \in {-2, -1, Topology_n_atoms(Self), Topology_n_atoms(Self) + 1} :
           Topology_atom(Self, k) = AssertionError
    /\ \A k \in {-2, -1, Topology_n_bonds(Self), Topology_n_bonds(Self) + 1} :
           Topology_bond(Self, k) = AssertionError
    /\ \A k \in {-2, -1, Topology_n_virtual_sites(Self),
                 Topology_n_virtual_sites(Self) + 1} :
           Topology_virtual_site(Self, k) = AssertionError
    /\ (op = "atom" /\ (arg.value < 0 \/ arg.value >=
            CountBefore(topology_molecules, Len(topology_molecules) + 1,
                        TopologyMolecule_n_atoms)))
          => result = AssertionError
    /\ (op = "bond" /\ (arg.value < 0 \/ arg.value >=
            CountBefore(topology_molecules, Len(topology_molecules) + 1,
                        TopologyMolecule_n_bonds)))
          => result = AssertionError
    /\ (op = "virtual_site" /\ (arg.value < 0 \/ arg.value >=
            CountBefore(topology_molecules, Len(topology_molecules) + 1,
                        TopologyMolecule_n_virtual_sites)))
          => result = AssertionError
    /\ (topology_molecules = <<>> /\ op \in {"atom", "bond", "virtual_site"})
          => result = AssertionError

\* Topology.atom(-1) was called on a Topology that has atoms.
C16_Witness ==
    /\ op = "atom"
    /\ arg = IntVal(-1)
    /\ Len(topology_molecules) >= 2
    /\ Topology_n_atoms(Self) > 0
    /\ result = AssertionError

(***************************************************************************)
(* Properties of the distance constraints.                                 *)
(***************************************************************************)
\* The constraint map keeps both directions of a pair together.
Pending(pairs, iatom, jatom) ==
    /\ <<iatom, jatom>> \in DOMAIN pairs
    /\ pairs[<<iatom, jatom>>] = PyTrue

\* C11: after a successful add_constraint(i, j, True), is_constrained(i, j)
\* returns True; after add_constraint(i, j, d) with a distance d it returns
\* d; after add_constraint(i, j, False) it returns False.
C11_IsConstrainedAfterAdd ==
    op = "add_constraint" =>
        LET now == is_constrained(constrained_atom_pairs, arg.iatom, arg.jatom)
        IN  /\ (arg.distance = PyTrue /\ result = None) => now = PyTrue
            /\ is_quantity(arg.distance) => (result = None /\ now = arg.distance)
            /\ arg.distance = PyFalse => now = PyFalse

C11_Witness ==
    /\ op = "add_constraint"
    /\ result = None
    /\ is_quantity(arg.distance)
    /\ arg.iatom # arg.jatom
    /\ is_constrained(constrained_atom_pairs, arg.iatom, arg.jatom) = arg.distance
    /\ \E i \in AtomIndices :
           is_constrained(constrained_atom_pairs, i, i) = PyTrue

\* C12: adding a pending constraint to a pair that already holds a pending
\* constraint raises and leaves the pair pending; adding a distance to a
\* pending pair replaces the value for both directions of the pair.
C12_PendingTransitions ==
    [][(op' = "add_constraint"
        /\ Pending(constrained_atom_pairs, arg'.iatom, arg'.jatom))
       => /\ arg'.distance = PyTrue =>
                 /\ result'.kind = "Exception"
                 /\ constrained_atom_pairs' = constrained_atom_pairs
                 /\ Pending(constrained_atom_pairs', arg'.iatom, arg'.jatom)
          /\ is_quantity(arg'.distance) =>
                 /\ result' = None
                 /\ is_constrained(constrained_atom_pairs', arg'.iatom,
                                   arg'.jatom) = arg'.distance
                 /\ is_constrained(constrained_atom_pairs', arg'.jatom,
                                   arg'.iatom) = arg'.distance]_vars

C12_Witness ==
    /\ op = "add_constraint"
    /\ arg.iatom # arg.jatom
    /\ arg.distance = PyTrue
    /\ result.kind = "Exception"
    /\ Pending(constrained_atom_pairs, arg.iatom, arg.jatom)
    /\ Pending(constrained_atom_pairs, arg.jatom, arg.iatom)

\* C13: add_constraint(i, j, False) on a pair that holds a constraint removes
\* both directions of the pair; on a pair that holds none it raises or
\* changes nothing, and never adds an entry.
C13_RemoveNeverAdds ==
    [][(op' = "add_constraint" /\ arg'.distance = PyFalse)
       => LET ij == <<arg'.iatom, arg'.jatom>>
              ji == <<arg'.jatom, arg'.iatom>>
          IN  IF ij \in DOMAIN constrained_atom_pairs
              THEN /\ ij \notin DOMAIN constrained_atom_pairs'
                   /\ ji \notin DOMAIN constrained_atom_pairs'
              ELSE constrained_atom_pairs' = constrained_atom_pairs]_vars

(***************************************************************************)
(* Properties of ValenceDict and ImproperDict.                             *)
(***************************************************************************)
\* The entries of the store whose key is one of the given keys.
EntriesUnder(st, keys) == {n \in 1..Len(st) : st[n].key \in keys}

\* After d[k] = v in a ValenceDict, v is read back under reversed(k), and k
\* and reversed(k) together name one entry.
SameEntryAfterSet(k) ==
    /\ getitem(dict_class', store', reversed(k)) = arg'.value
    /\ getitem(dict_class', store', k) = arg'.value
    /\ Cardinality(EntriesUnder(store', {k, reversed(k)})) = 1

\* C14 as stated: in a ValenceDict every key tuple k of length 2, 3 or 4,
\* also one whose first and last elements are equal, and reversed(k) address
\* the same entry.
C14_EveryKeyAndItsReversal ==
    [][(dict_class = "ValenceDict" /\ op' = "setitem")
       => SameEntryAfterSet(arg'.key)]_vars

\* A 4-tuple with equal first and last elements that is not its own reversal.
EqualEndsNotPalindrome(k) ==
    /\ k[1] = k[Len(k)]
    /\ k # reversed(k)

\* C14: in a ValenceDict a key tuple k and reversed(k) address the same entry
\* (a value stored under one is read back under the other, and storing under
\* both leaves one entry) whenever the first and last elements of k differ or
\* k is its own reversal; this covers every tuple of length 2 or 3.
C14_KeyAndItsReversal ==
    [][(dict_class = "ValenceDict" /\ op' = "setitem")
       => /\ Len(arg'.key) \in {2, 3} => ~EqualEndsNotPalindrome(arg'.key)
          /\ ~EqualEndsNotPalindrome(arg'.key) => SameEntryAfterSet(arg'.key)]_vars

C14_Witness ==
    /\ dict_class = "ValenceDict"
    /\ Len(key0) = 4
    /\ key0[1] > key0[4]
    /\ op = "getitem"
    /\ arg.key = key0
    /\ result \in DictValues
    /\ Cardinality(EntriesUnder(store, {key0})) = 0
    /\ Cardinality(EntriesUnder(store, {reversed(key0)})) = 1

\* C15: in an ImproperDict, after d[k] = v the value v is read back under all
\* six orderings of the substituents of k around its center at position 1;
\* the orderings name one entry, whose key is (s0, c, s1, s2) with
\* s0 <= s1 <= s2 the substituents; the key transformation is idempotent.
C15_SubstituentOrderings ==
    [][(dict_class = "ImproperDict" /\ op' = "setitem")
       => LET k == arg'.key
              entries == EntriesUnder(store', SubstituentOrderings(k))
          IN  /\ \A o \in SubstituentOrderings(k) :
                     /\ getitem(dict_class', store', o) = arg'.value
                     /\ ImproperDict_keytransform(ImproperDict_keytransform(o))
                            = ImproperDict_keytransform(o)
              /\ Cardinality(entries) = 1
              /\ \A n \in entries :
                     /\ store'[n].key[2] = k[2]
                     /\ store'[n].key[1] <= store'[n].key[3]
                     /\ store'[n].key[3] <= store'[n].key[4]
                     /\ store'[n].key \in SubstituentOrderings(k)]_vars

C15_Witness ==
    /\ dict_class = "ImproperDict"
    /\ Cardinality({key0[1], key0[3], key0[4]}) = 3
    /\ key0[1] > key0[3]
    /\ key0[3] > key0[4]
    /\ op = "getitem"
    /\ arg.key = <<key0[3], key0[2], key0[1], key0[4]>>
    /\ result \in DictValues
    /\ Len(store) = 2
    /\ Cardinality(EntriesUnder(store, SubstituentOrderings(key0))) = 1
    /\ \A n \in EntriesUnder(store, SubstituentOrderings(key0)) :
           store[n].key = <<key0[4], key0[2], key0[3], key0[1]>>

(***************************************************************************)
(* Properties of the TopologyMolecule lookups and of the views.            *)
(***************************************************************************)
\* The number of entities behind the last TopologyMolecule lookup.
LocalCount ==
    LET tm == topology_molecules[arg.instance]
    IN  IF op = "TopologyMolecule.atom" THEN TopologyMolecule_n_atoms(tm)
        ELSE IF op = "TopologyMolecule.bond" THEN TopologyMolecule_n_bonds(tm)
        ELSE IF op = "TopologyMolecule.virtual_site"
             THEN TopologyMolecule_n_virtual_sites(tm)
        ELSE TopologyMolecule_n_particles(tm)

InstanceLookups ==
    {"TopologyMolecule.atom", "TopologyMolecule.bond",
     "TopologyMolecule.virtual_site", "TopologyMolecule.particle"}

\* C17: TopologyMolecule.atom(i), bond(i), particle(i) and virtual_site(i)
\* raise an out-of-range error for every local index i outside
\* 0 <= i < count, negative i included, and return no view for it.
C17_LocalLookupRangeChecked ==
    (op \in InstanceLookups /\ ~(0 <= arg.index /\ arg.index < LocalCount))
        => result = IndexError

\* The entity a view wraps.
EntityOf(view) ==
    IF view.kind = "TopologyAtom" THEN view.atom
    ELSE IF view.kind = "TopologyBond" THEN view.bond
    ELSE view.virtual_site

\* C18: two separately constructed views of one kind (TopologyAtom,
\* TopologyBond or TopologyVirtualSite) compare equal exactly when they wrap
\* the same reference entity and the same TopologyMolecule instance.
C18_ViewEquality ==
    (op = "eq" /\ arg.left.oid # arg.right.oid)
        => (result = PyTrue <=>
               /\ EntityOf(arg.left.view) = EntityOf(arg.right.view)
               /\ arg.left.view.topology_molecule.id
                      = arg.right.view.topology_molecule.id)

(***************************************************************************)
(* Properties of the box vectors and of the model settings.                *)
(***************************************************************************)
\* A value the box_vectors setter has to take: None, or a vector of shape
\* (3,) with a unit of length.
AcceptableBoxVectors(b) ==
    \/ b = None
    \/ /\ b.kind = "Quantity"
       /\ b.unit \in {"angstrom", "nanometer"}
       /\ b.shape = <<3>>

\* C19: setting box_vectors to a value without units, with units that are not
\* a length, or of a shape other than (3,) raises and leaves the stored box
\* vectors unchanged; setting it to a vector of shape (3,) with a unit of
\* length, or to None, succeeds, and the getter then returns the value set.
C19_BoxVectorsValidated ==
    [][/\ op' = "box_vectors.setter" =>
             IF AcceptableBoxVectors(arg')
             THEN /\ result' = None
                  /\ box_vectors' = arg'
                  /\ box_vectors_getter(box_vectors') = arg'
             ELSE /\ result'.kind \in {"Exception", "AssertionError"}
                  /\ box_vectors' = box_vectors
       /\ op' = "box_vectors" =>
             /\ result' = box_vectors
             /\ box_vectors' = box_vectors]_vars

C19_Witness ==
    /\ op = "box_vectors.setter"
    /\ arg.kind = "Quantity"
    /\ arg.unit = "nanometer"
    /\ arg.shape = <<3, 3>>
    /\ result = AssertionError
    /\ box_vectors.kind = "Quantity"
    /\ box_vectors.shape = <<3>>

\* The allow-list of the setter last called.
AllowedFor(setter) ==
    IF setter = "aromaticity_model.setter" THEN ALLOWED_AROMATICITY_MODELS
    ELSE IF setter = "charge_model.setter" THEN ALLOWED_CHARGE_MODELS
    ELSE ALLOWED_FRACTIONAL_BOND_ORDER_MODELS

ModelSetters ==
    {"aromaticity_model.setter", "charge_model.setter",
     "fractional_bond_order_model.setter"}

\* C20: the aromaticity_model, charge_model and fractional_bond_order_model
\* setters raise ValueError for a value outside their allow-list and leave
\* the three stored models unchanged, and before and after every call the
\* aromaticity model is one of the allowed ones.
C20_ModelSettersValidated ==
    [][/\ aromaticity_model.value \in ALLOWED_AROMATICITY_MODELS
       /\ aromaticity_model'.value \in ALLOWED_AROMATICITY_MODELS
       /\ (op' \in ModelSetters /\ arg'.value \notin AllowedFor(op'))
          => /\ result' = ValueError
             /\ aromaticity_model' = aromaticity_model
             /\ charge_model' = charge_model
             /\ fractional_bond_order_model' = fractional_bond_order_model]_vars

C20_Witness ==
    /\ op = "charge_model.setter"
    /\ arg = Str("Wiberg")
    /\ result = ValueError
    /\ charge_model = Str("AM1-BCC")
    /\ fractional_bond_order_model = Str("Wiberg")

\* C21: for every instance and every local particle index i with
\* 0 <= i < n_particles, TopologyMolecule.particle(i) returns the view that
\* the i-th element of TopologyMolecule.particles yields.
C21_ParticleReturnsView ==
    (op = "TopologyMolecule.particle"
     /\ 0 <= arg.index
     /\ arg.index < TopologyMolecule_n_particles(topology_molecules[arg.instance]))
        => result = TopologyMolecule_particles(
                        topology_molecules[arg.instance])[arg.index + 1]

(***************************************************************************)
(* Invariants of the constraint map.                                       *)
(***************************************************************************)
\* C22: in every state reached by add_constraint calls the constraint map is
\* symmetric: (i, j) is a key iff (j, i) is, both hold the same value, and
\* is_constrained(i, j) equals is_constrained(j, i).
C22_ConstraintMapSymmetric ==
    \A i \in AtomIndices, j \in AtomIndices :
        /\ <<i, j>> \in DOMAIN constrained_atom_pairs
               <=> <<j, i>> \in DOMAIN constrained_atom_pairs
        /\ <<i, j>> \in DOMAIN constrained_atom_pairs
               => constrained_atom_pairs[<<i, j>>] = constrained_atom_pairs[<<j, i>>]
        /\ is_constrained(constrained_atom_pairs, i, j)
               = is_constrained(constrained_atom_pairs, j, i)

C22_Witness ==
    /\ op = "add_constraint"
    /\ result = None
    /\ arg.iatom # arg.jatom
    /\ arg.distance = PyFalse
    /\ <<arg.iatom, arg.jatom>> \notin DOMAIN constrained_atom_pairs
    /\ <<arg.jatom, arg.iatom>> \notin DOMAIN constrained_atom_pairs
    /\ \E i \in AtomIndices :
           /\ <<i, i>> \in DOMAIN constrained_atom_pairs
           /\ is_quantity(constrained_atom_pairs[<<i, i>>])

\* C28: an add_constraint(i, j, distance) call that raises leaves
\* constrained_atom_pairs as it was before the call, for all i and j, i = j
\* included, and every distance argument.
C28_RaiseLeavesMapUnchanged ==
    [][(op' = "add_constraint" /\ result' # None)
       => constrained_atom_pairs' = constrained_atom_pairs]_vars

(***************************************************************************)
(* Frame of add_molecule and invariants of the instance mapping.           *)
(***************************************************************************)
\* C23: add_molecule is append-only. It keeps the order, the reference
\* molecule and the start indices of every instance added before, so every
\* global atom, bond and virtual-site index valid before the call resolves
\* to the same view after it; and it leaves constrained_atom_pairs,
\* box_vectors and aromaticity_model unchanged.
C23_AddMoleculeAppendOnly ==
    [][op' = "add_molecule"
       => /\ Len(topology_molecules') = Len(topology_molecules) + 1
          /\ \A n \in 1..Len(topology_molecules) :
                 LET tm == topology_molecules[n]
                 IN  /\ topology_molecules'[n] = tm
                     /\ atom_start_topology_index(Self', tm)
                            = atom_start_topology_index(Self, tm)
                     /\ bond_start_topology_index(Self', tm)
                            = bond_start_topology_index(Self, tm)
                     /\ particle_start_topology_index(Self', tm)
                            = particle_start_topology_index(Self, tm)
                     /\ virtual_site_start_topology_index(Self', tm)
                            = virtual_site_start_topology_index(Self, tm)
          /\ \A k \in 0..(Topology_n_atoms(Self) - 1) :
                 Topology_atom(Self', k) = Topology_atom(Self, k)
          /\ \A k \in 0..(Topology_n_bonds(Self) - 1) :
                 Topology_bond(Self', k) = Topology_bond(Self, k)
          /\ \A k \in 0..(Topology_n_virtual_sites(Self) - 1) :
                 Topology_virtual_site(Self', k) = Topology_virtual_site(Self, k)
          /\ constrained_atom_pairs' = constrained_atom_pairs
          /\ box_vectors' = box_vectors
          /\ aromaticity_model' = aromaticity_model]_vars

C23_Witness ==
    /\ op = "add_molecule"
    /\ Len(topology_molecules) = 3
    /\ topology_molecules[3].reference_molecule
           = topology_molecules[1].reference_molecule
    /\ topology_molecules[2].reference_molecule
           # topology_molecules[1].reference_molecule
    /\ Topology_n_bonds(Self) >= 2
    /\ DOMAIN constrained_atom_pairs # {}
    /\ box_vectors # None

\* The places (key position, list position) at which an instance is listed
\* in the reference-molecule-to-instances mapping.
PlacesOf(tm) ==
    LET d == reference_molecule_to_topology_molecules
    IN  {pl \in (1..Len(d)) \X (1..Len(topology_molecules)) :
            /\ pl[2] <= Len(d[pl[1]].val)
            /\ TopologyMolecule_eq(d[pl[1]].val[pl[2]], tm)}

\* C24: the reference-molecule-to-instances mapping partitions the instance
\* list. Every instance is listed exactly once, under its own reference
\* molecule; every list is non-empty and holds its instances in the order of
\* topology_molecules; reference_molecules iterates in the order in which
\* the SMILES were first added.
C24_MappingPartitionsInstances ==
    LET d == reference_molecule_to_topology_molecules
        refs == reference_molecules(Self)
    IN  /\ \A n \in 1..Len(topology_molecules) :
               /\ Cardinality(PlacesOf(topology_molecules[n])) = 1
               /\ \A pl \in PlacesOf(topology_molecules[n]) :
                      d[pl[1]].key = topology_molecules[n].reference_molecule
        /\ \A i \in 1..Len(d) :
               /\ d[i].val # <<>>
               /\ d[i].val = InstancesInAddedOrder(i)
        /\ \A i, j \in 1..Len(refs) :
               i < j => FirstAdded(refs[i]) < FirstAdded(refs[j])

C24_Witness ==
    /\ Len(topology_molecules) = 3
    /\ Len(reference_molecule_to_topology_molecules) = 2
    /\ Len(reference_molecule_to_topology_molecules[1].val) = 2
    /\ to_smiles(added[1]) = to_smiles(added[3])
    /\ added[1] # added[3]
    /\ PlacesOf(topology_molecules[3]) = {<<1, 2>>}
    /\ PlacesOf(topology_molecules[2]) = {<<2, 1>>}

(***************************************************************************)
(* Invariants of the canonical-key dicts.                                  *)
(***************************************************************************)
\* A key in canonical form: first element not above the last for a
\* ValenceDict, substituents in ascending order for an ImproperDict.
IsCanonical(class, k) ==
    IF class = "ValenceDict" THEN k[1] <= k[Len(k)]
    ELSE k[1] <= k[3] /\ k[3] <= k[4]

\* The keys that name the same entry as k.
EquivalentKeys(class, k) ==
    IF class = "ValenceDict"
    THEN IF EqualEndsNotPalindrome(k) THEN {k} ELSE {k, reversed(k)}
    ELSE SubstituentOrderings(k)

\* The keys of the store, in iteration order.
StoreKeys(st) == [n \in 1..Len(st) |-> st[n].key]

\* Every stored key is canonical and is stored once, so that len is the
\* number of distinct canonical keys.
StoreWellFormed(class, st) ==
    /\ \A n \in 1..Len(st) : IsCanonical(class, st[n].key)
    /\ Cardinality({st[n].key : n \in 1..Len(st)}) = Len(st)

\* C25: under any sequence of insertions, lookups and deletions on a
\* ValenceDict or ImproperDict, every stored key is canonical and len is the
\* number of distinct canonical keys stored; inserting a new key puts it last
\* in iteration order; inserting through a key equivalent to a stored one
\* overwrites the value and keeps position and length; deleting through a key
\* equivalent to a stored one removes the entry and keeps the order of the
\* others; a lookup changes nothing.
C25_StoreInvariants ==
    [][LET eq == EquivalentKeys(dict_class, arg'.key)
           held == EntriesUnder(store, eq)
       IN  /\ StoreWellFormed(dict_class, store)
           /\ StoreWellFormed(dict_class', store')
           /\ Cardinality(held) <= 1
           /\ (op' = "setitem" /\ held # {}) =>
                  /\ StoreKeys(store') = StoreKeys(store)
                  /\ \A n \in 1..Len(store) :
                         store'[n].val = IF n \in held THEN arg'.value
                                         ELSE store[n].val
           /\ (op' = "setitem" /\ held = {}) =>
                  /\ Len(store') = Len(store) + 1
                  /\ SubSeq(store', 1, Len(store)) = store
                  /\ store'[Len(store')].key \in eq
                  /\ store'[Len(store')].val = arg'.value
           /\ (op' = "delitem" /\ held # {}) =>
                  /\ result' = None
                  /\ EntriesUnder(store', eq) = {}
                  /\ store' = SelectSeq(store, LAMBDA e : e.key \notin eq)
           /\ (op' = "delitem" /\ held = {}) =>
                  /\ result' = KeyError
                  /\ store' = store
           /\ op' = "getitem" =>
                  /\ store' = store
                  /\ result' = IF held = {} THEN KeyError
                               ELSE store[CHOOSE n \in held : TRUE].val]_vars

C25_Witness ==
    /\ op = "setitem"
    /\ Len(store) = 2
    /\ store[1].key # arg.key
    /\ store[1].key \in EquivalentKeys(dict_class, arg.key)
    /\ store[1].val = arg.value
    /\ store[2].val # arg.value

(***************************************************************************)
(* Order of the matches over three instances of one reference molecule.    *)
(***************************************************************************)
\* The last call was chemical_environment_matches on a Topology of three
\* instances of one reference molecule whose pattern has two matches or more.
ThreeInstancesSeveralMatches ==
    /\ op = "chemical_environment_matches"
    /\ arg.type # "int"
    /\ Len(topology_molecules) = 3
    /\ n_reference_molecules(Self) = 1
    /\ Len(MatchesOfReference(1, arg.smarts)) >= 2

\* The instance that the x-th tuple of the result belongs to.
InstanceOfTuple(x) == result.value[x][1].topology_molecule

\* C26 as stated: the result has 3 * M tuples in instance-grouped order, the
\* M tuples of the first instance first, then those of the second, then
\* those of the third.
C26_InstanceGroupedOrder ==
    ThreeInstancesSeveralMatches =>
        LET M == Len(MatchesOfReference(1, arg.smarts))
        IN  /\ result.kind = "list"
            /\ Len(result.value) = 3 * M
            /\ \A x \in 1..(3 * M) :
                   TopologyMolecule_eq(InstanceOfTuple(x),
                                       topology_molecules[((x - 1) \div M) + 1])

\* C26: the result has 3 * M tuples in match-grouped order: the three tuples
\* of the first match, one per instance in order of addition, come first,
\* then the three of the second match, and so on.
C26_MatchGroupedOrder ==
    ThreeInstancesSeveralMatches =>
        LET matches == MatchesOfReference(1, arg.smarts)
            M == Len(matches)
        IN  /\ result.kind = "list"
            /\ Len(result.value) = 3 * M
            /\ \A x \in 1..(3 * M) :
                   /\ TopologyMolecule_eq(InstanceOfTuple(x),
                                          topology_molecules[((x - 1) % 3) + 1])
                   /\ IsTranslation(result.value[x],
                                    matches[((x - 1) \div 3) + 1],
                                    topology_molecules[((x - 1) % 3) + 1])

C26_Witness ==
    /\ ThreeInstancesSeveralMatches
    /\ result.kind = "list"
    /\ Len(result.value) = 6
    /\ added[1] # added[2]
    /\ InstanceOfTuple(2).id = 2
    /\ InstanceOfTuple(4).id = 1

(***************************************************************************)
(* Properties of is_bonded and assert_bonded.                              *)
(***************************************************************************)
\* The instance that holds the global atom index k, by the prefix sums of
\* the atom counts.
InstanceHolding(k) ==
    CHOOSE n \in 1..Len(topology_molecules) :
        /\ CountBefore(topology_molecules, n, TopologyMolecule_n_atoms) <= k
        /\ k < CountBefore(topology_molecules, n + 1, TopologyMolecule_n_atoms)

\* The local index of the global atom index k in its instance.
LocalIndex(k) ==
    k - CountBefore(topology_molecules, InstanceHolding(k),
                    TopologyMolecule_n_atoms)

\* Atoms i and j are in one instance whose reference molecule has a bond
\* between their local indices.
BondedInReference(i, j) ==
    LET n == InstanceHolding(i)
        bonds == Molecule_bonds(topology_molecules[n].reference_molecule)
        li == LocalIndex(i)
        lj == LocalIndex(j)
    IN  /\ n = InstanceHolding(j)
        /\ \E b \in 1..Len(bonds) :
               \/ bonds[b][1] = li /\ bonds[b][2] = lj
               \/ bonds[b][1] = lj /\ bonds[b][2] = li

\* The Topology that the add_molecule calls made so far build from a blank
\* one.
RECURSIVE BuiltBy(_)
BuiltBy(molecules) ==
    IF molecules = <<>> THEN initialize
    ELSE add_molecule(BuiltBy(SubSeq(molecules, 1, Len(molecules) - 1)),
                      molecules[Len(molecules)]).topology

\* C27: for valid global atom indices i and j, is_bonded(i, j) is True
\* exactly when i and j are in one instance whose reference molecule has a
\* bond between their local indices; it is symmetric, False for i = j and
\* for atoms of different instances; assert_bonded(i, j) raises exactly when
\* is_bonded(i, j) is False; after either call the Topology is still the one
\* that the add_molecule calls built, with its constraints and settings.
C27_BondedMatchesReference ==
    (op \in {"is_bonded", "assert_bonded"} /\ arg.i >= 0)
       => LET i == arg.i
              j == arg.j
              bonded == is_bonded(Self, IntVal(i), IntVal(j))
              expected == BondedInReference(i, j)
          IN  /\ bonded = IF expected THEN PyTrue ELSE PyFalse
              /\ is_bonded(Self, IntVal(j), IntVal(i)) = bonded
              /\ i = j => ~expected
              /\ InstanceHolding(i) # InstanceHolding(j) => ~expected
              /\ op = "is_bonded" => result = bonded
              /\ op = "assert_bonded" =>
                     /\ bonded = PyFalse => result.kind = "Exception"
                     /\ bonded = PyTrue => result = None
              /\ Self = BuiltBy(added)
              /\ constrained_atom_pairs = initialize_metadata.constrained_atom_pairs
              /\ box_vectors = initialize_metadata.box_vectors
              /\ aromaticity_model = initialize_metadata.aromaticity_model

C27_Witness ==
    /\ op = "assert_bonded"
    /\ result = None
    /\ Len(topology_molecules) = 3
    /\ arg.i < arg.j
    /\ InstanceHolding(arg.i) = 2
    /\ topology_molecules[2].reference_molecule.ordering = "rev"


(***************************************************************************)
(* Properties of add_molecule calls made by two threads.                   *)
(***************************************************************************)
\* Sum of the atom counts of the instances of the list.
InstanceAtomSum ==
    CountBefore(topology_molecules, Len(topology_molecules) + 1,
                TopologyMolecule_n_atoms)

\* Some SMILES has two reference molecules.
TwoReferences ==
    LET refs == reference_molecules(Self)
    IN  \E i, j \in 1..Len(refs) :
            i < j /\ to_smiles(refs[i]) = to_smiles(refs[j])

\* Some instance of the list is not in the list of its reference molecule.
MissingInstance ==
    LET d == reference_molecule_to_topology_molecules
    IN  \E n \in 1..Len(topology_molecules) :
            LET tm == topology_molecules[n]
                p  == KeyPosition(d, key_eq, tm.reference_molecule)
            IN  \/ p = 0
                \/ \A k \in 1..Len(d[p].val) : ~TopologyMolecule_eq(d[p].val[k], tm)

\* The calls of the two threads are for one SMILES and both scans found no
\* reference molecule for it: both scanned before either registered.
BothScannedUnseen ==
    /\ \A t \in Threads : calls[t].pc # "idle" /\ ~calls[t].found
    /\ \A t, u \in Threads : to_smiles(calls[t].molecule) = to_smiles(calls[u].molecule)

\* C29: while a call is between its append to the instance list and its
\* append to the list of the reference molecule, the per-instance atom sum
\* exceeds n_atoms, and so does it exceed what a reader gets from n_atoms;
\* when no two calls were ever in flight together and every call has
\* returned, every SMILES has one reference molecule, every instance is in
\* the list of its reference molecule and the sum equals n_atoms; when both
\* threads scanned before either registered a molecule of one unseen SMILES
\* and keys compare by identity, the SMILES has two reference molecules once
\* both have registered.
C29_SerializedOnly ==
    /\ (\E t \in Threads : calls[t].pc = "appended")
           => /\ InstanceAtomSum > Topology_n_atoms(Self)
              /\ op = "n_atoms" => result.value < InstanceAtomSum
    /\ (~overlapped /\ \A t \in Threads : ~InFlight(calls[t]))
           => /\ ~TwoReferences
              /\ ~MissingInstance
              /\ InstanceAtomSum = Topology_n_atoms(Self)
              /\ op = "n_atoms" => result.value = InstanceAtomSum
    /\ (/\ key_eq = "identity"
        /\ BothScannedUnseen
        /\ \A t \in Threads : calls[t].pc \notin {"idle", "scanned"})
           => TwoReferences
    /\ key_eq = "smiles" => ~TwoReferences

\* Both threads scanned before either registered, both calls have returned,
\* the SMILES has two reference molecules and an instance is in no list of
\* its reference molecule.
C29_Witness ==
    /\ BothScannedUnseen
    /\ \A t \in Threads : calls[t].pc = "done"
    /\ key_eq = "identity"
    /\ TwoReferences
    /\ MissingInstance


(***************************************************************************)
(* Properties of Topology(other).                                          *)
(***************************************************************************)
\* C30: Topology(other) with other a Molecule has exactly one instance and
\* one reference molecule, and is the Topology that from_molecules([other])
\* returns.
C30_ConstructFromMolecule ==
    (op = "Topology" /\ is_molecule(arg))
       => /\ n_molecules(Self) = 1
          /\ n_reference_molecules(Self) = 1
          /\ Self = from_molecules(<<arg>>)

====
